---- MODULE Spec2Model ----
(***************************************************************************)
(* Decision engine of kosior3x/Swarm: ABSRBidecision / NPZEngine of        *)
(* src/swarm_core_FIXED.py (v2.1), the version the specification follows.  *)
(*                                                                         *)
(* Real numbers are fixed-point integers with FP units per 1.0: speeds,    *)
(* similarities, weights, vector components and the oscillator state.      *)
(* Distances are whole millimetres.  The wall clock is in whole seconds.   *)
(***************************************************************************)
EXTENDS Integers, Sequences, FiniteSets, TLC

\* ------------------------------------------------------------------------
\* Fixed point
\* ------------------------------------------------------------------------
FP == 1000

Min2(a, b) == IF a < b THEN a ELSE b
Max2(a, b) == IF a > b THEN a ELSE b
Abs(a) == IF a < 0 THEN 0 - a ELSE a

\* Division rounding toward zero, as float-to-fixed truncation does.
Quot(a, b) == IF a >= 0 THEN a \div b ELSE 0 - ((0 - a) \div b)

\* Product of two fixed-point numbers.
Mul(a, b) == Quot(a * b, FP)

RECURSIVE IsqrtIter(_, _, _)
IsqrtIter(n, lo, hi) ==
    IF lo >= hi THEN lo
    ELSE LET mid == (lo + hi + 1) \div 2
         IN  IF mid * mid <= n THEN IsqrtIter(n, mid, hi)
             ELSE IsqrtIter(n, lo, mid - 1)

\* Integer square root (floor), n < 2^30
Isqrt(n) == IsqrtIter(n, 0, 32767)

\* ------------------------------------------------------------------------
\* SwarmConfig
\* ------------------------------------------------------------------------
max_sensor_range == 400
chaos_level == 150                 \* 0.15
chaos_min_safe_distance == 120
learning_rate == 100               \* 0.1
ol_learning_rate == 150            \* 0.15
ol_similarity_threshold == 600     \* 0.6
robot_width == 220
robot_clearance == 30
danger_dist == 60
warning_dist == 100
chaos_enabled == TRUE
ol_enabled == TRUE

get_min_passage_width == robot_width + robot_clearance * 2

is_tight_passage(dist_left, dist_right) ==
    dist_left + dist_right < get_min_passage_width

get_safe_speed_for_passage(dist_left, dist_right) ==
    LET total_width == dist_left + dist_right
        min_width == get_min_passage_width
    IN  IF total_width < min_width THEN 0
        ELSE IF 2 * total_width < 3 * min_width THEN 40 * FP
        ELSE 90 * FP

\* ------------------------------------------------------------------------
\* ActionType
\* ------------------------------------------------------------------------
FORWARD == "FORWARD"
TURN_LEFT == "TURN_LEFT"
TURN_RIGHT == "TURN_RIGHT"
STOP == "STOP"
ESCAPE == "ESCAPE"
REVERSE == "REVERSE"

\* ------------------------------------------------------------------------
\* np.tanh, by linear interpolation between its values at multiples of 0.25
\* (saturating from 4.0 on); odd, monotone and within [-1, 1] like np.tanh.
\* ------------------------------------------------------------------------
TanhTable == <<0, 245, 462, 635, 762, 848, 905, 941, 964, 978, 987, 992,
               995, 997, 998, 999, 999>>

Tanh(u) ==
    LET a == Abs(u)
        i == a \div 250
        r == a % 250
        t == IF a >= 4000 THEN 999
             ELSE TanhTable[i + 1]
                  + ((TanhTable[i + 2] - TanhTable[i + 1]) * r) \div 250
    IN  IF u < 0 THEN 0 - t ELSE t

\* ------------------------------------------------------------------------
\* Feature vectors: functions over the slot numbers 0..vector_dim-1
\* ------------------------------------------------------------------------
vector_dim == 38
Slots == 0 .. (vector_dim - 1)

\* An np.ndarray holding the values of f (the function, evaluated once)
Array(f) == f @@ f

SumSq(vec) ==
    LET acc[i \in Slots] == vec[i] * vec[i] + (IF i = 0 THEN 0 ELSE acc[i - 1])
    IN  acc[vector_dim - 1]

\* np.linalg.norm
Norm(vec) == Isqrt(SumSq(vec))

\* np.dot of two vectors
Dot(a, b) ==
    LET acc[i \in Slots] == a[i] * b[i] + (IF i = 0 THEN 0 ELSE acc[i - 1])
    IN  Quot(acc[vector_dim - 1], FP)

\* vec / norm, left alone when the norm is zero
Normalized(vec) ==
    LET n == Norm(vec)
    IN  IF n > 0 THEN Array([i \in Slots |-> Quot(vec[i] * FP, n)]) ELSE vec

Flag(b) == IF b THEN FP ELSE 0

\* NPZEngine.create_sensor_vector
create_sensor_vector(dist_front, dist_left, dist_right, speed_left, speed_right) ==
    LET max_r == max_sensor_range
        d_f == Min2(Quot(dist_front * FP, max_r), FP)
        d_l == Min2(Quot(dist_left * FP, max_r), FP)
        d_r == Min2(Quot(dist_right * FP, max_r), FP)
        spd_l == Min2(Quot(speed_left * FP, 150), FP)
        spd_r == Min2(Quot(speed_right * FP, 150), FP)
        vec == Array([i \in Slots |->
                 CASE i = 0 -> d_f
                   [] i = 1 -> d_l
                   [] i = 2 -> d_r
                   [] i = 3 -> Quot(d_f + d_l + d_r, 3)
                   [] i = 4 -> Min2(d_f, Min2(d_l, d_r))
                   [] i = 5 -> Max2(d_f, Max2(d_l, d_r))
                   [] i = 6 -> Abs(d_l - d_r)
                   [] i = 7 -> Flag(d_f < 200)
                   [] i = 8 -> Flag(d_l < 300 \/ d_r < 300)
                   [] i = 9 -> Flag(d_f > 800 /\ d_l > 500 /\ d_r > 500)
                   [] i = 10 -> spd_l
                   [] i = 11 -> spd_r
                   [] i = 12 -> Quot(spd_l + spd_r, 2)
                   [] i = 13 -> Abs(spd_l - spd_r)
                   [] i = 14 -> Flag(speed_left > 0 /\ speed_right > 0)
                   [] i = 20 -> Flag(d_f < 300)
                   [] i = 21 -> Flag(d_l < 200 /\ d_r > 500)
                   [] i = 22 -> Flag(d_r < 200 /\ d_l > 500)
                   [] i = 23 -> Flag(d_f < 200 /\ d_l < 200 /\ d_r < 200)
                   [] i = 24 -> Flag(d_l > 800 /\ d_r > 800 /\ d_f > 500)
                   [] i = 25 -> Flag(d_l < 400 /\ d_r < 400 /\ d_f > 500)
                   [] i = 30 -> Tanh(d_f * 2 - FP)
                   [] i = 31 -> Tanh((d_l - d_r) * 2)
                   \* 1/(1+exp(-5(d_f-0.3))) = (1 + tanh(2.5(d_f-0.3)))/2
                   [] i = 32 -> Quot(FP + Tanh(Quot(5 * (d_f - 300), 2)), 2)
                   [] OTHER -> 0])
    IN  Normalized(vec)

\* ------------------------------------------------------------------------
\* The persisted concept model (BEHAVIORAL_BRAIN.npz): a sample of the
\* basic concept set that swarm_trainer.create_basic_concepts writes.
\* ------------------------------------------------------------------------
basic_situations == <<
    [name |-> "CLEAR_SPACE_ALL_SIDES",   r |-> <<350, 300, 300, 120, 120>>, cat |-> "navigation"],
    [name |-> "NORMAL_NAVIGATION",       r |-> <<200, 150, 150, 100, 100>>, cat |-> "navigation"],
    [name |-> "CORRIDOR_CENTERED",       r |-> <<250,  80,  80,  90,  90>>, cat |-> "navigation"],
    [name |-> "ACTIVE_SEEK_LEFT_SPACE",  r |-> <<200, 320, 150,  80, 130>>, cat |-> "exploration"],
    [name |-> "ACTIVE_SEEK_RIGHT_SPACE", r |-> <<200, 150, 320, 130,  80>>, cat |-> "exploration"],
    [name |-> "TRAPPED_ALL_BLOCKED",     r |-> << 40,  40,  40, -60,  60>>, cat |-> "emergency"] >>

npz_words == [k \in DOMAIN basic_situations |-> basic_situations[k].name]
npz_categories == [k \in DOMAIN basic_situations |-> basic_situations[k].cat]
npz_vectors_norm ==
    Array([k \in DOMAIN basic_situations |->
        LET r == basic_situations[k].r
        IN  Normalized(create_sensor_vector(r[1], r[2], r[3], r[4], r[5]))])

\* np.argmax: the first index holding the maximum
ArgMax(sims) ==
    CHOOSE k \in DOMAIN sims :
        /\ \A j \in DOMAIN sims : sims[j] <= sims[k]
        /\ \A j \in DOMAIN sims : j < k => sims[j] < sims[k]

tolerance == 250   \* default argument of find_best_match: 0.25

\* NPZEngine.find_best_match -> <<concept, similarity, category>>
find_best_match(is_loaded, sensor_vector) ==
    IF ~is_loaded THEN <<"FORWARD", 0, "fallback">>
    ELSE LET sims == Array([k \in DOMAIN npz_vectors_norm |->
                         Dot(npz_vectors_norm[k], sensor_vector)])
             best_idx == ArgMax(sims)
             best_sim == sims[best_idx]
         IN  IF best_sim < tolerance
             THEN <<"FORWARD", best_sim, "low_confidence">>
             ELSE <<npz_words[best_idx], best_sim, npz_categories[best_idx]>>

\* The name fragments concept_to_action looks for, per concept label
\* (Python's `fragment in concept.upper()`).
Fragments(concept) ==
    CASE concept = "CLEAR_SPACE_ALL_SIDES"   -> {}
      [] concept = "NORMAL_NAVIGATION"       -> {"NORMAL"}
      [] concept = "CORRIDOR_CENTERED"       -> {"CORRIDOR"}
      [] concept = "ACTIVE_SEEK_LEFT_SPACE"  -> {"LEFT"}
      [] concept = "ACTIVE_SEEK_RIGHT_SPACE" -> {"RIGHT"}
      [] concept = "TRAPPED_ALL_BLOCKED"     -> {"TRAPPED"}
      [] concept = "FORWARD"                 -> {"FORWARD"}
      [] concept = "FORWARD_UNCERTAIN"       -> {"FORWARD"}
      [] concept = "LEFT_WALL_NEAR"          -> {"LEFT_WALL", "LEFT"}
      [] concept = "RIGHT_WALL_NEAR"         -> {"RIGHT_WALL", "RIGHT"}
      [] concept = "CAUTIOUS_STOP"           -> {"CAUTIOUS_STOP", "STOP"}
      [] OTHER                               -> {}

Has(concept, fragment) == fragment \in Fragments(concept)

\* NPZEngine.concept_to_action -> <<action, speed_left, speed_right>>
concept_to_action(concept) ==
    IF Has(concept, "TRAPPED") \/ Has(concept, "EMERGENCY_ESCAPE")
        THEN <<ESCAPE, -120 * FP, 120 * FP>>
    ELSE IF Has(concept, "COLLISION") \/ Has(concept, "CAUTIOUS_STOP")
        THEN <<STOP, 0, 0>>
    ELSE IF Has(concept, "LEFT_WALL") \/ Has(concept, "LEFT_OBSTACLE")
        THEN <<TURN_RIGHT, 140 * FP, 40 * FP>>
    ELSE IF Has(concept, "RIGHT_WALL") \/ Has(concept, "RIGHT_OBSTACLE")
        THEN <<TURN_LEFT, 40 * FP, 140 * FP>>
    ELSE IF Has(concept, "FRONT_OBSTACLE_RIGHT")
        THEN <<TURN_LEFT, 40 * FP, 140 * FP>>
    ELSE IF Has(concept, "FRONT_OBSTACLE_LEFT")
        THEN <<TURN_RIGHT, 140 * FP, 40 * FP>>
    ELSE IF Has(concept, "EXPLORATION_LEFT")
        THEN <<TURN_LEFT, 30 * FP, 150 * FP>>
    ELSE IF Has(concept, "EXPLORATION_RIGHT")
        THEN <<TURN_RIGHT, 150 * FP, 30 * FP>>
    ELSE IF Has(concept, "CORRIDOR")
        THEN <<FORWARD, 90 * FP, 90 * FP>>
    ELSE IF Has(concept, "CLEAR_PATH")
        THEN <<FORWARD, 120 * FP, 120 * FP>>
    ELSE IF Has(concept, "NORMAL") \/ Has(concept, "FORWARD")
        THEN <<FORWARD, 100 * FP, 100 * FP>>
    ELSE IF Has(concept, "ESCAPE") \/ Has(concept, "STUCK")
        THEN <<ESCAPE, -120 * FP, 120 * FP>>
    ELSE IF Has(concept, "TURN_LEFT") \/ Has(concept, "LEFT")
        THEN <<TURN_LEFT, 30 * FP, 150 * FP>>
    ELSE IF Has(concept, "TURN_RIGHT") \/ Has(concept, "RIGHT")
        THEN <<TURN_RIGHT, 150 * FP, 30 * FP>>
    ELSE IF Has(concept, "STOP")
        THEN <<STOP, 0, 0>>
    ELSE <<FORWARD, 100 * FP, 100 * FP>>

\* ------------------------------------------------------------------------
\* ABSRBidecision._rule_based_decision
\*   -> <<action, speed_left, speed_right, label>>
\* ------------------------------------------------------------------------
\* A "front very close" test with the trapped rung's front threshold
FrontVeryCloseTrapped(d_f) == d_f < 150

\* "Front very close": if d_f < 0.25
FrontVeryClose(d_f) == d_f < 250

_rule_based_decision(dist_front, dist_left, dist_right) ==
    LET max_r == max_sensor_range
        d_f == Quot(dist_front * FP, max_r)
        d_l == Quot(dist_left * FP, max_r)
        d_r == Quot(dist_right * FP, max_r)
        SIDE_CRITICAL == Quot(60 * FP, max_r)
        danger_threshold == Quot(danger_dist * FP, max_r)
        warning_threshold == Quot(warning_dist * FP, max_r)
        is_tight == is_tight_passage(dist_left, dist_right)
        safe_speed == get_safe_speed_for_passage(dist_left, dist_right)
        total_passage == dist_left + dist_right
        \* center_error * 0.3, center_error = (dist_left - dist_right) / 2
        correction == Quot((dist_left - dist_right) * 3 * FP, 20)
        bias == (d_l - d_r) * 20
    IN  IF (d_l < SIDE_CRITICAL /\ d_r < SIDE_CRITICAL)
           \/ (d_f < 150 /\ d_l < 250 /\ d_r < 250)
            THEN <<ESCAPE, -100 * FP, 100 * FP, "TRAPPED_ESCAPE">>
        ELSE IF d_r < SIDE_CRITICAL
            THEN <<TURN_LEFT, 40 * FP, 140 * FP, "SIDE_COLLISION_RIGHT">>
        ELSE IF d_l < SIDE_CRITICAL
            THEN <<TURN_RIGHT, 140 * FP, 40 * FP, "SIDE_COLLISION_LEFT">>
        ELSE IF FrontVeryClose(d_f)
            THEN IF d_l > d_r
                 THEN <<TURN_LEFT, 30 * FP, 130 * FP, "EMERGENCY_BRAKE_LEFT">>
                 ELSE <<TURN_RIGHT, 130 * FP, 30 * FP, "EMERGENCY_BRAKE_RIGHT">>
        ELSE IF d_f < danger_threshold
            THEN IF d_l > d_r
                 THEN <<TURN_LEFT, 40 * FP, 110 * FP, "AVOID_FRONT_LEFT">>
                 ELSE <<TURN_RIGHT, 110 * FP, 40 * FP, "AVOID_FRONT_RIGHT">>
        ELSE IF d_f < warning_threshold
            THEN IF d_l > d_r
                 THEN <<TURN_LEFT, 50 * FP, 90 * FP, "WARNING_STEER_LEFT">>
                 ELSE <<TURN_RIGHT, 90 * FP, 50 * FP, "WARNING_STEER_RIGHT">>
        ELSE IF total_passage < get_min_passage_width
            THEN IF d_l > d_r
                 THEN <<TURN_LEFT, 40 * FP, 80 * FP, "TOO_NARROW_LEFT">>
                 ELSE <<TURN_RIGHT, 80 * FP, 40 * FP, "TOO_NARROW_RIGHT">>
        ELSE IF is_tight
            THEN <<FORWARD, safe_speed - correction, safe_speed + correction,
                   "TIGHT_PASSAGE">>
        ELSE IF d_l < 400 /\ d_r < 400 /\ d_f > 400
            THEN <<FORWARD, 80 * FP - bias, 80 * FP + bias, "CORRIDOR">>
        ELSE IF Abs(d_l - d_r) > 150
            THEN IF d_l > d_r
                 THEN <<FORWARD, 80 * FP, 130 * FP, "SEEK_SPACE_LEFT">>
                 ELSE <<FORWARD, 130 * FP, 80 * FP, "SEEK_SPACE_RIGHT">>
        ELSE IF d_f > 600 /\ d_l > 300 /\ d_r > 300
            THEN <<FORWARD, 120 * FP, 120 * FP, "CLEAR_PATH">>
        ELSE <<FORWARD, 80 * FP, 80 * FP, "DEFAULT_CAUTIOUS">>

\* ------------------------------------------------------------------------
\* Lorenz oscillator and chaos blend
\* ------------------------------------------------------------------------
lorenz_sigma == 10
lorenz_rho == 28

\* ABSRBidecision._lorenz_step: the next oscillator state (dt = 0.01,
\* beta = 8/3)
LorenzNext(s) ==
    LET x == s[1]
        y == s[2]
        z == s[3]
        dx == lorenz_sigma * (y - x)
        dy == Mul(x, lorenz_rho * FP - z) - y
        dz == Mul(x, y) - Quot(8 * z, 3)
    IN  <<x + Quot(dx, 100), y + Quot(dy, 100), z + Quot(dz, 100)>>

\* ABSRBidecision._lorenz_step: the tanh-normalised output of a state
LorenzOut(s) == <<Tanh(Quot(s[1], 20)), Tanh(Quot(s[2], 25)), Tanh(Quot(s[3], 30))>>

\* ABSRBidecision._chaos_blend_action -> <<action, speed_left, speed_right>>
_chaos_blend_action(base_action, speed_l, speed_r, chaos_vec) ==
    LET cx == chaos_vec[1]
        cy == chaos_vec[2]
        cz == chaos_vec[3]
        intensity == Quot(Mul(Abs(cz), chaos_level), 2)
        direction_blend == Mul(cx * 20, intensity)
        speed_modifier == FP + Mul(Quot(cy, 5), intensity)
        new_speed_l == Max2(0, Min2(150 * FP, Mul(speed_l, speed_modifier) + direction_blend))
        new_speed_r == Max2(0, Min2(150 * FP, Mul(speed_r, speed_modifier) - direction_blend))
    IN  <<base_action, new_speed_l, new_speed_r>>

\* ------------------------------------------------------------------------
\* State of one engine (ABSRBidecision + its NPZEngine) and its environment
\* ------------------------------------------------------------------------
VARIABLES
    loaded,              \* NPZEngine.loaded
    bll_weights,         \* dict category -> weight
    bll_fresh,           \* no bll_weights.json was loaded at construction
    bll_history,         \* len(self.bll_history)
    ol_vectors,          \* dict concept -> vector, in insertion order
    lorenz_state,
    last_decision,
    last_sensor_vec,
    decision_count,
    direction_memory,    \* deque(maxlen=20) of "LEFT"/"RIGHT"
    oscillation_detected,
    current_maneuver,
    last_maneuver_turn,
    last_maneuver_time,
    now,                 \* time.time() at the latest call
    decision,            \* the Decision returned by the latest decide()
    path,                \* which part of decide() produced it
    call,                \* the latest call and its arguments
    dir_exists,          \* the learning directory exists
    disk_bll,            \* learning_dir/bll_weights.json
    disk_ol,             \* learning_dir/ol_vectors.json
    raised,              \* the latest call ended in an exception
    trigger_run,         \* history: the current run of avoidance triggers
                         \* whose turn directions alternate
    trapped_age,         \* history: decide() calls since, and including, the
                         \* latest one that found the engine idle with all
                         \* three readings below 60 mm (0: none so far)
    escape_age           \* history: decide() calls since, and including, the
                         \* latest one that started an EmergencyEscape
                         \* (0: none so far)

vars == <<loaded, bll_weights, bll_fresh, bll_history, ol_vectors,
          lorenz_state, last_decision, last_sensor_vec, decision_count,
          direction_memory, oscillation_detected, current_maneuver,
          last_maneuver_turn, last_maneuver_time, now, decision, path, call,
          dir_exists, disk_bll, disk_ol, raised, trigger_run,
          trapped_age, escape_age>>

None == "None"
NoManeuver == [type |-> None]
NoDecision == [source |-> None]
NoVec == [i \in {} |-> 0]
NoCategory == "<absent>"

\* dict helpers for ol_vectors (a sequence of [k, v] in insertion order)
OlKeys(ol) == {ol[i].k : i \in DOMAIN ol}
OlGet(ol, key) == (CHOOSE e \in {ol[i] : i \in DOMAIN ol} : e.k = key).v
OlSet(ol, key, vec) ==
    IF key \in OlKeys(ol)
    THEN [i \in DOMAIN ol |-> IF ol[i].k = key THEN [k |-> key, v |-> vec] ELSE ol[i]]
    ELSE Append(ol, [k |-> key, v |-> vec])
OlDel(ol, key) == SelectSeq(ol, LAMBDA e : e.k # key)

\* dict.get(category, 1.0)
WeightOf(w, category) == IF category \in DOMAIN w THEN w[category] ELSE FP

\* ABSRBidecision._match_ol_vectors -> <<concept, similarity>>
_match_ol_vectors(ol, sensor_vec) ==
    IF ~ol_enabled \/ ol = <<>> THEN <<"", 0>>
    ELSE IF Norm(sensor_vec) = 0 THEN <<"", 0>>
    ELSE LET sensor_vec_norm == Normalized(sensor_vec)
             RECURSIVE Scan(_, _)
             Scan(i, best) ==
                 IF i > Len(ol) THEN best
                 ELSE LET vec == ol[i].v
                          similarity == Dot(sensor_vec_norm, Normalized(vec))
                      IN  IF Norm(vec) > 0 /\ similarity > best[2]
                          THEN Scan(i + 1, <<ol[i].k, similarity>>)
                          ELSE Scan(i + 1, best)
         IN  Scan(1, <<"", 0>>)

\* deque(maxlen=20).append
direction_memory_maxlen == 20
DequeAppend(q, x) ==
    IF Len(q) >= direction_memory_maxlen THEN Append(Tail(q), x) ELSE Append(q, x)

\* the last n entries of a sequence (list(q)[-n:])
LastN(q, n) == IF Len(q) <= n THEN q ELSE SubSeq(q, Len(q) - n + 1, Len(q))

\* An oscillation detector that knows the two alternating patterns only
_detect_oscillation_patterns(memory) ==
    IF Len(memory) < 6 THEN FALSE
    ELSE LET recent == LastN(memory, 6)
             pattern1 == <<"LEFT", "RIGHT", "LEFT", "RIGHT", "LEFT", "RIGHT">>
             pattern2 == <<"RIGHT", "LEFT", "RIGHT", "LEFT", "RIGHT", "LEFT">>
         IN  recent = pattern1 \/ recent = pattern2

\* An oscillation detector that waits for a seventh recorded turn
_detect_oscillation_late(memory) ==
    IF Len(memory) < 7 THEN FALSE
    ELSE LET recent == LastN(memory, 6)
             changes == Cardinality({i \in 2 .. Len(recent) : recent[i] # recent[i - 1]})
         IN  changes >= 4

\* ABSRBidecision._detect_oscillation
_detect_oscillation(memory) ==
    IF Len(memory) < 6 THEN FALSE
    ELSE LET recent == LastN(memory, 6)
             pattern1 == <<"LEFT", "RIGHT", "LEFT", "RIGHT", "LEFT", "RIGHT">>
             pattern2 == <<"RIGHT", "LEFT", "RIGHT", "LEFT", "RIGHT", "LEFT">>
             changes == Cardinality({i \in 2 .. Len(recent) : recent[i] # recent[i - 1]})
         IN  recent = pattern1 \/ recent = pattern2 \/ changes >= 4

\* ABSRBidecision._update_direction_memory(action_concept='', action_type):
\* the direction appended for an action type (None: nothing is appended)
DirectionOf(action_type) ==
    IF action_type = TURN_LEFT THEN "LEFT"
    ELSE IF action_type = TURN_RIGHT THEN "RIGHT"
    ELSE None

_update_direction_memory(memory, action_type) ==
    IF DirectionOf(action_type) # None
    THEN DequeAppend(memory, DirectionOf(action_type))
    ELSE memory

\* An emergency check that does not look at the front reading
_check_emergency_sides_only(df, dl, dr) ==
    LET CRITICAL == 60
    IN  \/ (dl < CRITICAL /\ dr < CRITICAL)
        \/ (2 * dl < CRITICAL \/ 2 * dr < CRITICAL)

\* An emergency check whose half-critical comparison includes the limit
_check_emergency_inclusive(df, dl, dr) ==
    LET CRITICAL == 60
    IN  \/ df < CRITICAL
        \/ (dl < CRITICAL /\ dr < CRITICAL)
        \/ (2 * dl <= CRITICAL \/ 2 * dr <= CRITICAL)

\* ABSRBidecision._check_emergency_condition
_check_emergency_condition(df, dl, dr) ==
    LET CRITICAL == 60
    IN  \/ df < CRITICAL
        \/ (dl < CRITICAL /\ dr < CRITICAL)
        \/ (2 * dl < CRITICAL \/ 2 * dr < CRITICAL)

\* An avoidance check without the asymmetry margin
_check_avoidance_no_margin(df, dl, dr) ==
    LET AVOID_THRESH == 200
    IN  dl < AVOID_THRESH \/ dr < AVOID_THRESH

\* ABSRBidecision._check_avoidance_condition
_check_avoidance_condition(df, dl, dr) ==
    LET AVOID_THRESH == 200
    IN  (dl < AVOID_THRESH \/ dr < AVOID_THRESH) /\ Abs(dl - dr) > 20

\* A maneuver step that reports the concept store as its source
_execute_maneuver_step_as_match(action, sl, sr, concept, cycle) ==
    [action |-> action, speed_left |-> sl * FP, speed_right |-> sr * FP,
     confidence |-> FP, source |-> "NPZ", concept |-> concept,
     cycle |-> cycle, category |-> NoCategory]

\* ABSRBidecision._execute_maneuver_step
\* A maneuver step that would report the counter as it was before the call
_execute_maneuver_step_stale(action, sl, sr, concept, cycle) ==
    [action |-> action, speed_left |-> sl * FP, speed_right |-> sr * FP,
     confidence |-> FP, source |-> "MANEUVER", concept |-> concept,
     cycle |-> cycle - 1, category |-> NoCategory]

_execute_maneuver_step(action, sl, sr, concept, cycle) ==
    [action |-> action, speed_left |-> sl * FP, speed_right |-> sr * FP,
     confidence |-> FP, source |-> "MANEUVER", concept |-> concept,
     cycle |-> cycle, category |-> NoCategory]

target_steps == 20

\* ABSRBidecision._start_emergency_maneuver
_start_emergency_maneuver(dl, dr, cycle) ==
    LET turn_dir == IF dl < dr THEN TURN_RIGHT ELSE TURN_LEFT
    IN  /\ current_maneuver' = [type |-> "EMERGENCY_ESCAPE", phase |-> "REVERSE",
                                step_count |-> 0, target_steps |-> target_steps,
                                turn_dir |-> turn_dir]
        /\ decision' = _execute_maneuver_step(REVERSE, -100, -100, "EMERGENCY_START", cycle)
        /\ UNCHANGED <<direction_memory, oscillation_detected,
                       last_maneuver_turn, last_maneuver_time>>

\* Turn speeds with a faster outer wheel
TurnSpeedsFast(action) == IF action = TURN_RIGHT THEN <<40, 160>> ELSE <<160, 40>>

\* The wheel speeds _execute_maneuver gives a continuing turn
TurnSpeeds(action) == IF action = TURN_RIGHT THEN <<40, 120>> ELSE <<120, 40>>

\* The wheel speeds _start_avoidance_maneuver gives the first step of a turn
AvoidStartSpeeds == <<120, 120>>

\* ABSRBidecision._start_avoidance_maneuver
\* A hysteresis window that includes its end
HysteresisInclusive(last_turn, action, elapsed) ==
    last_turn # action /\ elapsed <= 2

\* ABSRBidecision._start_avoidance_maneuver, the hysteresis test:
\* self.last_maneuver_turn != action and time.time() - self.last_maneuver_time < 2.0
Hysteresis(last_turn, action, elapsed) ==
    last_turn # action /\ elapsed < 2

\* A start of avoidance that clears the direction memory when it reports
\* oscillation
_start_avoidance_maneuver_reset(dl, dr, t, cycle) ==
    LET action == IF dl < dr THEN TURN_RIGHT ELSE TURN_LEFT
        target_sensor_start == IF dl < dr THEN dr ELSE dl
        blocked_sensor == IF dl < dr THEN "left" ELSE "right"
    IN  IF _detect_oscillation(direction_memory)
        THEN /\ oscillation_detected' = TRUE
             /\ direction_memory' = <<>>
             /\ decision' = [action |-> FORWARD, speed_left |-> 70 * FP,
                             speed_right |-> 70 * FP, source |-> "ANTI_OSCILLATION",
                             confidence |-> FP, concept |-> "FORCE_FORWARD",
                             cycle |-> cycle, category |-> NoCategory]
             /\ UNCHANGED <<current_maneuver, last_maneuver_turn, last_maneuver_time>>
        ELSE IF Hysteresis(last_maneuver_turn, action, t - last_maneuver_time)
        THEN /\ decision' = [action |-> FORWARD, speed_left |-> 60 * FP,
                             speed_right |-> 60 * FP, source |-> "ANTI_OSCILLATION",
                             confidence |-> FP, concept |-> "HYSTERESIS_FORWARD",
                             cycle |-> cycle, category |-> NoCategory]
             /\ UNCHANGED <<current_maneuver, direction_memory, oscillation_detected,
                            last_maneuver_turn, last_maneuver_time>>
        ELSE /\ direction_memory' = _update_direction_memory(direction_memory, action)
             /\ current_maneuver' = [type |-> "AVOIDANCE_TURN", action |-> action,
                                     start_target_val |-> target_sensor_start,
                                     blocked_side |-> blocked_sensor]
             /\ decision' = _execute_maneuver_step(action, AvoidStartSpeeds[1],
                                                   AvoidStartSpeeds[2], "AVOID_START", cycle)
             /\ UNCHANGED <<oscillation_detected, last_maneuver_turn, last_maneuver_time>>

_start_avoidance_maneuver(dl, dr, t, cycle) ==
    LET action == IF dl < dr THEN TURN_RIGHT ELSE TURN_LEFT
        target_sensor_start == IF dl < dr THEN dr ELSE dl
        blocked_sensor == IF dl < dr THEN "left" ELSE "right"
    IN  IF _detect_oscillation(direction_memory)
        THEN /\ oscillation_detected' = TRUE
             /\ decision' = [action |-> FORWARD, speed_left |-> 70 * FP,
                             speed_right |-> 70 * FP, source |-> "ANTI_OSCILLATION",
                             confidence |-> FP, concept |-> "FORCE_FORWARD",
                             cycle |-> cycle, category |-> NoCategory]
             /\ UNCHANGED <<current_maneuver, direction_memory,
                            last_maneuver_turn, last_maneuver_time>>
        ELSE IF Hysteresis(last_maneuver_turn, action, t - last_maneuver_time)
        THEN /\ decision' = [action |-> FORWARD, speed_left |-> 60 * FP,
                             speed_right |-> 60 * FP, source |-> "ANTI_OSCILLATION",
                             confidence |-> FP, concept |-> "HYSTERESIS_FORWARD",
                             cycle |-> cycle, category |-> NoCategory]
             /\ UNCHANGED <<current_maneuver, direction_memory, oscillation_detected,
                            last_maneuver_turn, last_maneuver_time>>
        ELSE /\ direction_memory' = _update_direction_memory(direction_memory, action)
             /\ current_maneuver' = [type |-> "AVOIDANCE_TURN", action |-> action,
                                     start_target_val |-> target_sensor_start,
                                     blocked_side |-> blocked_sensor]
             /\ decision' = _execute_maneuver_step(action, AvoidStartSpeeds[1],
                                                   AvoidStartSpeeds[2], "AVOID_START", cycle)
             /\ UNCHANGED <<oscillation_detected, last_maneuver_turn, last_maneuver_time>>

\* An avoidance exit that asks for more than 20 mm of improvement
AvoidExitStrict(improvement, current_target_val) ==
    improvement > 20 \/ current_target_val > 300

\* ABSRBidecision._execute_maneuver, AVOIDANCE_TURN: the exit conditions
AvoidExit(improvement, current_target_val) ==
    improvement >= 20 \/ current_target_val > 300

\* An align exit that one clear side would satisfy
AlignExitEither(dl, dr) == dl > 100 \/ dr > 100

\* ABSRBidecision._execute_maneuver, ALIGN_TURN: both sides clear
AlignExit(dl, dr) == dl > 100 /\ dr > 100

\* A reverse phase that ends one step early
ReversePhaseEarly(step_count, target) ==
    IF step_count + 1 >= target THEN "ALIGN_TURN" ELSE "REVERSE"

\* ABSRBidecision._execute_maneuver, the phase after a reverse step
ReversePhase(step_count, target) ==
    IF step_count >= target THEN "ALIGN_TURN" ELSE "REVERSE"

\* ABSRBidecision._execute_maneuver
_execute_maneuver(df, dl, dr, t, cycle) ==
    LET m == current_maneuver
    IN  /\ UNCHANGED <<direction_memory, oscillation_detected>>
        /\ IF m.type = "EMERGENCY_ESCAPE" /\ m.phase = "REVERSE"
           THEN LET step_count == m.step_count + 1
                    phase == ReversePhase(step_count, m.target_steps)
                IN  /\ current_maneuver' = [m EXCEPT !.step_count = step_count,
                                                     !.phase = phase]
                    /\ decision' = _execute_maneuver_step(REVERSE, -100, -100,
                                       "REVERSING_" \o ToString(step_count), cycle)
                    /\ UNCHANGED <<last_maneuver_turn, last_maneuver_time>>
           ELSE IF m.type = "EMERGENCY_ESCAPE" /\ m.phase = "ALIGN_TURN"
           THEN IF AlignExit(dl, dr)
                THEN /\ current_maneuver' = NoManeuver
                     /\ decision' = _execute_maneuver_step(STOP, 0, 0, "SAFE_REACHED", cycle)
                     /\ UNCHANGED <<last_maneuver_turn, last_maneuver_time>>
                ELSE /\ decision' = _execute_maneuver_step(m.turn_dir,
                                       TurnSpeeds(m.turn_dir)[1], TurnSpeeds(m.turn_dir)[2],
                                       "ALIGNING_TO_SAFE", cycle)
                     /\ UNCHANGED <<current_maneuver, last_maneuver_turn, last_maneuver_time>>
           ELSE IF m.type = "AVOIDANCE_TURN"
           THEN LET action == m.action
                    current_target_val == IF action = TURN_RIGHT THEN dr ELSE dl
                    improvement == current_target_val - m.start_target_val
                IN  IF AvoidExit(improvement, current_target_val)
                    THEN /\ last_maneuver_turn' = action
                         /\ last_maneuver_time' = t
                         /\ current_maneuver' = NoManeuver
                         /\ decision' = _execute_maneuver_step(FORWARD, 100, 100,
                                                               "PATH_IMPROVED", cycle)
                    ELSE /\ decision' = _execute_maneuver_step(action,
                                            TurnSpeeds(action)[1], TurnSpeeds(action)[2],
                                            "AVOIDING_OBSTACLE", cycle)
                         /\ UNCHANGED <<current_maneuver, last_maneuver_turn,
                                        last_maneuver_time>>
           ELSE /\ decision' = _execute_maneuver_step(STOP, 0, 0, "UNKNOWN_MANEUVER", cycle)
                /\ UNCHANGED <<current_maneuver, last_maneuver_turn, last_maneuver_time>>

\* ------------------------------------------------------------------------
\* Inputs: the distance readings fed to decide()
\* ------------------------------------------------------------------------
Readings ==
    { <<40, 40, 40>>,       \* trapped
      <<150, 30, 200>>,     \* left wall
      <<150, 200, 30>>,     \* right wall
      <<400, 400, 400>>,    \* open space
      <<200, 150, 150>>,    \* clear path
      <<110, 250, 250>>,
      <<60, 50, 60>>,
      <<200, 320, 210>> }

DefaultSpeed == 100

\* The feature vector of every reading the model feeds, computed once
ReadingVector ==
    Array([r \in Readings |->
              create_sensor_vector(r[1], r[2], r[3], DefaultSpeed, DefaultSpeed)])

\* self.npz.create_sensor_vector(...) as decide() calls it
SensorVector(dist_front, dist_left, dist_right, speed_left, speed_right) ==
    IF /\ <<dist_front, dist_left, dist_right>> \in Readings
       /\ speed_left = DefaultSpeed /\ speed_right = DefaultSpeed
    THEN ReadingVector[<<dist_front, dist_left, dist_right>>]
    ELSE create_sensor_vector(dist_front, dist_left, dist_right, speed_left, speed_right)

\* The concept-store match of every reading the model feeds, computed once
ReadingMatch ==
    Array([r \in Readings |-> find_best_match(TRUE, ReadingVector[r])])

\* self.npz.find_best_match(sensor_vec) as decide() calls it
NpzMatch(is_loaded, dist_front, dist_left, dist_right, sensor_vec) ==
    IF is_loaded /\ <<dist_front, dist_left, dist_right>> \in Readings
                /\ sensor_vec = ReadingVector[<<dist_front, dist_left, dist_right>>]
    THEN ReadingMatch[<<dist_front, dist_left, dist_right>>]
    ELSE find_best_match(is_loaded, sensor_vec)

\* A chaos condition that ignores the distance to the nearest obstacle
ChaosOnAlways(min_dist) == chaos_enabled

\* ABSRBidecision.decide, "Lorenz chaos - CONDITIONAL"
ChaosOn(min_dist) == chaos_enabled /\ min_dist > chaos_min_safe_distance

\* A confidence test that any match passes
ConfidentFromZero(adjusted_sim) == adjusted_sim >= 0

\* ABSRBidecision.decide, "Convert to action": if adjusted_sim > 0.5
Confident(adjusted_sim) == adjusted_sim > 500

\* A choice of the learned-store match by the usability threshold alone
UseOlThresholdOnly(ol_similarity, npz_similarity) ==
    ol_enabled /\ ol_similarity > ol_similarity_threshold

\* ABSRBidecision.decide, "Choose best source (NPZ vs OL)"
UseOl(ol_similarity, npz_similarity) ==
    /\ ol_enabled
    /\ ol_similarity > npz_similarity
    /\ ol_similarity > ol_similarity_threshold

\* ABSRBidecision.decide, step 4: the standard decision (NPZ + OL + chaos)
StandardDecision(dist_front, dist_left, dist_right, speed_left, speed_right, cycle) ==
    \E sensor_vec \in {SensorVector(dist_front, dist_left, dist_right,
                                    speed_left, speed_right)} :
    \E npz \in {NpzMatch(loaded, dist_front, dist_left, dist_right, sensor_vec)},
       ol \in {_match_ol_vectors(ol_vectors, sensor_vec)} :
    LET min_dist == Min2(dist_front, Min2(dist_left, dist_right))
        chaos_on == ChaosOn(min_dist)
        next_lorenz == IF chaos_on THEN LorenzNext(lorenz_state) ELSE lorenz_state
        chaos_vec == IF chaos_on THEN LorenzOut(next_lorenz) ELSE <<0, 0, 0>>
        category == npz[3]
        use_ol == UseOl(ol[2], npz[2])
        matched == IF use_ol THEN ol[1] ELSE npz[1]
        similarity == IF use_ol THEN ol[2] ELSE npz[2]
        source == IF use_ol THEN "OL" ELSE "NPZ"
        bll_boost == WeightOf(bll_weights, category)
        adjusted_sim == Mul(similarity, bll_boost)
        base == IF Confident(adjusted_sim) THEN concept_to_action(matched)
                ELSE <<FORWARD, 80 * FP, 80 * FP>>
        concept == IF Confident(adjusted_sim) THEN matched ELSE "FORWARD_UNCERTAIN"
        blended == IF base[1] = FORWARD /\ chaos_vec # <<0, 0, 0>>
                   THEN _chaos_blend_action(base[1], base[2], base[3], chaos_vec)
                   ELSE base
    IN  /\ last_sensor_vec' = sensor_vec
        /\ lorenz_state' = next_lorenz
        /\ decision' = [action |-> blended[1], speed_left |-> blended[2],
                        speed_right |-> blended[3], confidence |-> adjusted_sim,
                        concept |-> concept, source |-> source, cycle |-> cycle,
                        category |-> category]
        /\ last_decision' = decision'

\* History of the avoidance triggers: the length n of the current run of
\* triggers whose turn directions alternate, the direction of the latest
\* trigger, and whether a trigger of the run was answered by an
\* ANTI_OSCILLATION decision.
TriggerRunNext(run, dl, dr, source) ==
    LET dir == IF dl < dr THEN TURN_RIGHT ELSE TURN_LEFT
        suppressed == (source = "ANTI_OSCILLATION")
    IN  IF run.dir # dir
        THEN [n |-> run.n + 1, dir |-> dir, anti |-> run.anti \/ suppressed]
        ELSE [n |-> 1, dir |-> dir, anti |-> suppressed]

\* History of the trapped readings: 1 at a decide() call that finds the engine
\* idle with all three readings below 60 mm, one more at every later call
\* (counted up to MaxTrappedAge)
MaxTrappedAge == 22

TrappedAgeNext(age, idle, df, dl, dr) ==
    IF idle /\ df < 60 /\ dl < 60 /\ dr < 60 THEN 1
    ELSE IF age = 0 THEN 0
    ELSE Min2(age + 1, MaxTrappedAge)

\* History of the emergency escapes: 1 at the call that starts one, one more
\* at every later call
MaxEscapeAge == 23

EscapeAgeNext(age, started) ==
    IF started THEN 1
    ELSE IF age = 0 THEN 0
    ELSE Min2(age + 1, MaxEscapeAge)

\* ABSRBidecision.decide, called at wall-clock time t
decide(dist_front, dist_left, dist_right, speed_left, speed_right, t) ==
    /\ now' = t
    /\ decision_count' = decision_count + 1
    /\ call' = [op |-> "decide", front |-> dist_front, left |-> dist_left,
                right |-> dist_right]
    /\ raised' = FALSE
    /\ trapped_age' = TrappedAgeNext(trapped_age, current_maneuver = NoManeuver,
                                     dist_front, dist_left, dist_right)
    /\ UNCHANGED <<loaded, bll_weights, bll_fresh, bll_history, ol_vectors,
                   dir_exists, disk_bll, disk_ol>>
    /\ IF current_maneuver # NoManeuver
       THEN /\ path' = "maneuver"
            /\ _execute_maneuver(dist_front, dist_left, dist_right, t, decision_count + 1)
            /\ UNCHANGED <<lorenz_state, last_decision, last_sensor_vec, trigger_run>>
       ELSE IF _check_emergency_condition(dist_front, dist_left, dist_right)
       THEN /\ path' = "emergency_start"
            /\ _start_emergency_maneuver(dist_left, dist_right, decision_count + 1)
            /\ UNCHANGED <<lorenz_state, last_decision, last_sensor_vec, trigger_run>>
       ELSE IF _check_avoidance_condition(dist_front, dist_left, dist_right)
       THEN /\ path' = "avoidance_start"
            /\ _start_avoidance_maneuver(dist_left, dist_right, t, decision_count + 1)
            /\ trigger_run' = TriggerRunNext(trigger_run, dist_left, dist_right,
                                             decision'.source)
            /\ UNCHANGED <<lorenz_state, last_decision, last_sensor_vec>>
       ELSE /\ path' = "standard"
            /\ StandardDecision(dist_front, dist_left, dist_right, speed_left,
                                speed_right, decision_count + 1)
            /\ UNCHANGED <<current_maneuver, direction_memory, oscillation_detected,
                           last_maneuver_turn, last_maneuver_time, trigger_run>>
    /\ escape_age' = EscapeAgeNext(escape_age, path' = "emergency_start")

\* ------------------------------------------------------------------------
\* Learning: feedback and persistence
\* ------------------------------------------------------------------------
memory_size == 1000

\* A file of the learning directory: absent, unreadable, or holding a map
NoFile == [state |-> "absent", data |-> <<>>]
CorruptFile == [state |-> "corrupt", data |-> <<>>]

\* json.dump of the weights: a JSON object, its members "key": number
FileOf(data) == [state |-> "ok", data |-> {<<c, data[c]>> : c \in DOMAIN data}]

\* ABSRBidecision._load_learning_data, bll_weights.json: json.load gives the
\* dict of the object's members; {} is kept when the file is absent or
\* cannot be parsed
LoadedFrom(file) ==
    IF file.state = "ok"
    THEN [c \in {mem[1] : mem \in file.data} |->
             (CHOOSE mem \in file.data : mem[1] = c)[2]]
    ELSE <<>>

\* ndarray.tolist(): the list of the components, first to last
ToList(vec) == [j \in 1 .. vector_dim |-> vec[j - 1]]

\* A load that would keep single precision only: every item loses its last
\* binary digit
FromListSingle(list) == Array([i \in Slots |-> Quot(list[i + 1], 2) * 2])

\* np.array(list): the vector of a list's items
FromList(list) == Array([i \in Slots |-> list[i + 1]])

\* json.dump of {k: v.tolist()}: a JSON object whose members, in insertion
\* order, are "key": [numbers]
OlFileOf(ol) ==
    [state |-> "ok",
     data |-> [i \in DOMAIN ol |-> [k |-> ol[i].k, v |-> ToList(ol[i].v)]]]

\* ABSRBidecision._load_learning_data, ol_vectors.json:
\* {k: np.array(v) for k, v in data.items()}
OlLoadedFrom(file) ==
    IF file.state = "ok"
    THEN [i \in DOMAIN file.data |->
             [k |-> file.data[i].k, v |-> FromList(file.data[i].v)]]
    ELSE <<>>

\* A weight update that does not clamp
BllUpdateUnclamped(w, category, success) ==
    LET current == WeightOf(w, category)
        delta == IF success THEN learning_rate ELSE 0 - learning_rate
    IN  [c \in DOMAIN w \cup {category} |-> IF c = category THEN current + delta ELSE w[c]]

\* The BLL part of feedback: the weights after feedback for a category
BllUpdate(w, category, success) ==
    LET current == WeightOf(w, category)
        delta == IF success THEN learning_rate ELSE 0 - learning_rate
        new == Max2(500, Min2(1500, current + delta))
    IN  [c \in DOMAIN w \cup {category} |-> IF c = category THEN new ELSE w[c]]

\* The OL part of feedback: the vectors after feedback on (concept_key, vec)
\* A learned-vector update whose decay never deletes an entry
OlUpdateNoDelete(ol, concept_key, vec, success) ==
    IF success
    THEN IF concept_key \notin OlKeys(ol)
         THEN OlSet(ol, concept_key, vec)
         ELSE LET alpha == ol_learning_rate
                  old == OlGet(ol, concept_key)
              IN  OlSet(ol, concept_key,
                        Array([i \in Slots |->
                                 Quot(alpha * vec[i] + (FP - alpha) * old[i], FP)]))
    ELSE IF concept_key \in OlKeys(ol)
         THEN OlSet(ol, concept_key,
                    Array([i \in Slots |-> Quot(OlGet(ol, concept_key)[i] * 95, 100)]))
         ELSE ol

\* A reinforcement that would add the reading's vector to the stored one
\* without the two weights
OlUpdateSum(ol, concept_key, vec, success) ==
    IF success
    THEN IF concept_key \notin OlKeys(ol)
         THEN OlSet(ol, concept_key, vec)
         ELSE OlSet(ol, concept_key,
                    Array([i \in Slots |-> vec[i] + OlGet(ol, concept_key)[i]]))
    ELSE ol

OlUpdate(ol, concept_key, vec, success) ==
    IF success
    THEN IF concept_key \notin OlKeys(ol)
         THEN OlSet(ol, concept_key, vec)
         ELSE LET alpha == ol_learning_rate
                  old == OlGet(ol, concept_key)
              IN  OlSet(ol, concept_key,
                        Array([i \in Slots |->
                                 Quot(alpha * vec[i] + (FP - alpha) * old[i], FP)]))
    ELSE IF concept_key \in OlKeys(ol)
         THEN LET decayed == Array([i \in Slots |->
                                        Quot(OlGet(ol, concept_key)[i] * 95, 100)])
              IN  IF Norm(decayed) < 100
                  THEN OlDel(ol, concept_key)
                  ELSE OlSet(ol, concept_key, decayed)
         ELSE ol

\* ABSRBidecision.save_learning_data, with the outcome io of its file
\* operations: "ok", "mkdir_fail" (os.makedirs raises, outside the try),
\* "bll_open_fail", "bll_write_fail", "ol_open_fail", "ol_write_fail"
\* (raised inside the try and logged).
save_learning_data(w, ol, io) ==
    IF ~dir_exists /\ io = "mkdir_fail"
    THEN /\ raised' = TRUE
         /\ UNCHANGED <<dir_exists, disk_bll, disk_ol>>
    ELSE /\ raised' = FALSE
         /\ dir_exists' = TRUE
         /\ disk_bll' = IF io = "bll_open_fail" THEN disk_bll
                        ELSE IF io = "bll_write_fail" THEN CorruptFile
                        ELSE FileOf(w)
         /\ disk_ol' = IF io \in {"bll_open_fail", "bll_write_fail", "ol_open_fail"}
                       THEN disk_ol
                       ELSE IF io = "ol_write_fail" THEN CorruptFile
                       ELSE OlFileOf(ol)

\* A feedback() whose failure reports also abort the active maneuver
feedback_abort(success, category_arg, io) ==
    LET category == IF category_arg = None /\ last_decision # NoDecision
                    THEN last_decision.category
                    ELSE category_arg
        has_category == category # None
        w == IF has_category THEN BllUpdate(bll_weights, category, success)
             ELSE bll_weights
        hist == IF has_category THEN Min2(bll_history + 1, memory_size)
                ELSE bll_history
        learn == ol_enabled /\ last_sensor_vec # NoVec /\ last_decision # NoDecision
        ol == IF learn
              THEN OlUpdate(ol_vectors, last_decision.concept, last_sensor_vec, success)
              ELSE ol_vectors
    IN  /\ call' = [op |-> "feedback", success |-> success, category |-> category_arg]
        /\ bll_weights' = w
        /\ bll_history' = hist
        /\ ol_vectors' = ol
        /\ IF hist % 20 = 0 \/ ~success
           THEN save_learning_data(w, ol, io)
           ELSE /\ raised' = FALSE
                /\ UNCHANGED <<dir_exists, disk_bll, disk_ol>>
        /\ current_maneuver' = IF success THEN current_maneuver ELSE NoManeuver
        /\ UNCHANGED <<loaded, bll_fresh, lorenz_state, last_decision, last_sensor_vec,
                       decision_count, direction_memory, oscillation_detected,
                       last_maneuver_turn, last_maneuver_time,
                       now, decision, path, trigger_run, trapped_age, escape_age>>

\* ABSRBidecision.feedback(success, category); category None when omitted
feedback(success, category_arg, io) ==
    LET category == IF category_arg = None /\ last_decision # NoDecision
                    THEN last_decision.category
                    ELSE category_arg
        has_category == category # None
        w == IF has_category THEN BllUpdate(bll_weights, category, success)
             ELSE bll_weights
        hist == IF has_category THEN Min2(bll_history + 1, memory_size)
                ELSE bll_history
        learn == ol_enabled /\ last_sensor_vec # NoVec /\ last_decision # NoDecision
        ol == IF learn
              THEN OlUpdate(ol_vectors, last_decision.concept, last_sensor_vec, success)
              ELSE ol_vectors
    IN  /\ call' = [op |-> "feedback", success |-> success, category |-> category_arg]
        /\ bll_weights' = w
        /\ bll_history' = hist
        /\ ol_vectors' = ol
        /\ IF hist % 20 = 0 \/ ~success
           THEN save_learning_data(w, ol, io)
           ELSE /\ raised' = FALSE
                /\ UNCHANGED <<dir_exists, disk_bll, disk_ol>>
        /\ UNCHANGED <<loaded, bll_fresh, lorenz_state, last_decision, last_sensor_vec,
                       decision_count, direction_memory, oscillation_detected,
                       current_maneuver, last_maneuver_turn, last_maneuver_time,
                       now, decision, path, trigger_run, trapped_age, escape_age>>

\* ------------------------------------------------------------------------
\* Construction: SwarmCore.__init__ / NPZEngine.__init__ /
\* ABSRBidecision.__init__ on a given file system
\* ------------------------------------------------------------------------
Now0 == 2        \* the wall clock at construction, in seconds (>= 2)

PersistedWeights == [c \in {"navigation"} |-> 1200]

InitFiles ==
    { [dir |-> FALSE, bll |-> NoFile],
      [dir |-> TRUE,  bll |-> NoFile],
      [dir |-> TRUE,  bll |-> FileOf(PersistedWeights)] }

Init ==
    /\ loaded \in BOOLEAN
    /\ \E f \in InitFiles :
          /\ dir_exists = f.dir
          /\ disk_bll = f.bll
          /\ bll_weights = LoadedFrom(f.bll)
          /\ bll_fresh = (f.bll.state # "ok")
    /\ disk_ol = NoFile
    /\ ol_vectors = OlLoadedFrom(disk_ol)
    /\ bll_history = 0
    /\ lorenz_state = <<100, 200, 300>>
    /\ last_decision = NoDecision
    /\ last_sensor_vec = NoVec
    /\ decision_count = 0
    /\ direction_memory = <<>>
    /\ oscillation_detected = FALSE
    /\ current_maneuver = NoManeuver
    /\ last_maneuver_turn = None
    /\ last_maneuver_time = 0
    /\ now = Now0
    /\ decision = NoDecision
    /\ path = None
    /\ call = [op |-> None]
    /\ raised = FALSE
    /\ trigger_run = [n |-> 0, dir |-> None, anti |-> FALSE]
    /\ trapped_age = 0
    /\ escape_age = 0

\* SwarmCore.save(): self.absr.save_learning_data()
save(io) ==
    /\ call' = [op |-> "save", io |-> io]
    /\ save_learning_data(bll_weights, ol_vectors, io)
    /\ UNCHANGED <<loaded, bll_weights, bll_fresh, bll_history, ol_vectors,
                   lorenz_state, last_decision, last_sensor_vec, decision_count,
                   direction_memory, oscillation_detected, current_maneuver,
                   last_maneuver_turn, last_maneuver_time, now, decision, path,
                   trigger_run, trapped_age, escape_age>>

\* A fresh SwarmCore constructed at time t on the same learning directory and
\* concept store: ABSRBidecision.__init__ resets every field and
\* _load_learning_data reads the two files back
restart(t) ==
    /\ call' = [op |-> "restart"]
    /\ now' = t
    /\ bll_weights' = LoadedFrom(disk_bll)
    /\ bll_fresh' = IF disk_bll.state = "ok" THEN bll_fresh ELSE TRUE
    /\ ol_vectors' = OlLoadedFrom(disk_ol)
    /\ bll_history' = 0
    /\ lorenz_state' = <<100, 200, 300>>
    /\ last_decision' = NoDecision
    /\ last_sensor_vec' = NoVec
    /\ decision_count' = 0
    /\ direction_memory' = <<>>
    /\ oscillation_detected' = FALSE
    /\ current_maneuver' = NoManeuver
    /\ last_maneuver_turn' = None
    /\ last_maneuver_time' = 0
    /\ decision' = NoDecision
    /\ path' = None
    /\ raised' = FALSE
    /\ trigger_run' = [n |-> 0, dir |-> None, anti |-> FALSE]
    /\ trapped_age' = 0
    /\ escape_age' = 0
    /\ UNCHANGED <<loaded, dir_exists, disk_bll, disk_ol>>

\* ------------------------------------------------------------------------
\* Bounds and steps
\* ------------------------------------------------------------------------
MaxCycles == 2            \* decide() calls of Spec
MaxFeedback == 1          \* feedback() calls of Spec
MaxDt == 2                \* seconds between two calls
MaxNow == 4               \* the wall clock of Spec stops here

\* The readings of Spec: trapped, left wall, right wall, open space, free
\* navigation, more room on the left
CoreReadings == { <<40, 40, 40>>, <<150, 30, 200>>, <<150, 200, 30>>,
                  <<400, 400, 400>>, <<200, 150, 150>>, <<200, 320, 210>> }

\* The times a call can happen at: at once, or MaxDt seconds later
Times(last) == { t \in {now, now + MaxDt} : t <= last }

IoOutcomes == {"ok", "mkdir_fail", "bll_write_fail", "ol_open_fail"}

DecideStep ==
    /\ decision_count < MaxCycles
    /\ \E r \in CoreReadings, t \in Times(MaxNow) :
          decide(r[1], r[2], r[3], DefaultSpeed, DefaultSpeed, t)

FeedbackStep ==
    /\ bll_history < MaxFeedback
    /\ \E success \in BOOLEAN, category \in {None, "navigation"}, io \in IoOutcomes :
          feedback(success, category, io)

Next == DecideStep \/ FeedbackStep

Spec == Init /\ [][Next]_vars

\* ------------------------------------------------------------------------
\* SpecManeuver: long runs that follow the maneuvers to their ends
\* ------------------------------------------------------------------------
MaxManeuverCycles == 24

\* trapped, left wall, and room on every side
ManeuverReadings == { <<40, 40, 40>>, <<150, 30, 200>>, <<110, 250, 250>> }

\* A first start: the concept store is loaded, nothing was ever persisted
InitFresh == Init /\ loaded /\ ~dir_exists

ManeuverStep ==
    /\ decision_count < MaxManeuverCycles
    /\ \E r \in ManeuverReadings :
          decide(r[1], r[2], r[3], DefaultSpeed, DefaultSpeed, now)

NextManeuver == ManeuverStep

SpecManeuver == InitFresh /\ [][NextManeuver]_vars

\* ------------------------------------------------------------------------
\* SpecLeftWall: the reading (front=150, left=30, right=200) on every cycle
\* ------------------------------------------------------------------------
MaxLeftWallCycles == 60
MaxLeftWallNow == 8

LeftWallStep ==
    /\ decision_count < MaxLeftWallCycles
    /\ \E t \in Times(MaxLeftWallNow) :
          decide(150, 30, 200, DefaultSpeed, DefaultSpeed, t)

NextLeftWall == LeftWallStep

SpecLeftWall == InitFresh /\ [][NextLeftWall]_vars

\* ------------------------------------------------------------------------
\* SpecOsc: left-blocked and right-blocked readings in any order
\* ------------------------------------------------------------------------
MaxOscCycles == 14
MaxOscNow == 16

\* left wall, left wall with the right side opening up, and their mirrors
OscReadings == { <<150, 30, 200>>, <<150, 30, 230>>,
                 <<150, 200, 30>>, <<150, 230, 30>> }

OscStep ==
    /\ decision_count < MaxOscCycles
    /\ \E r \in OscReadings, t \in Times(MaxOscNow) :
          decide(r[1], r[2], r[3], DefaultSpeed, DefaultSpeed, t)

\* feedback() once the detector has reported oscillation
MaxOscFeedback == 1

OscFeedbackStep ==
    /\ oscillation_detected
    /\ bll_history < MaxOscFeedback
    /\ \E success \in BOOLEAN : feedback(success, "navigation", "ok")

NextOsc == OscStep \/ OscFeedbackStep

SpecOsc == InitFresh /\ [][NextOsc]_vars

\* ------------------------------------------------------------------------
\* SpecLearn: feedback after feedback on a few decisions
\* ------------------------------------------------------------------------
MaxLearnCycles == 1
MaxLearnFeedback == 6

LearnReadings == { <<200, 320, 210>> }

LearnDecideStep ==
    /\ decision_count < MaxLearnCycles
    /\ \E r \in LearnReadings :
          decide(r[1], r[2], r[3], DefaultSpeed, DefaultSpeed, now)

LearnFeedbackStep ==
    /\ bll_history < MaxLearnFeedback
    /\ \E success \in BOOLEAN, category \in {None, "navigation"},
          io \in {"ok", "bll_write_fail"} :
          feedback(success, category, io)

NextLearn == LearnDecideStep \/ LearnFeedbackStep

\* The concept store is loaded; any persisted state
InitLearn == Init /\ loaded

SpecLearn == InitLearn /\ [][NextLearn]_vars

\* Persistence: learning, explicit saves and restarts of the engine on the
\* same learning directory
MaxPersistCycles == 2     \* decide() calls of one engine of SpecPersist
MaxPersistFeedback == 2   \* category feedbacks of one engine of SpecPersist
MaxPersistNow == 3        \* latest construction time of SpecPersist

PersistReadings == { <<200, 320, 210>>, <<400, 400, 400>> }

PersistDecideStep ==
    /\ decision_count < MaxPersistCycles
    /\ \E r \in PersistReadings :
          decide(r[1], r[2], r[3], DefaultSpeed, DefaultSpeed, now)

PersistFeedbackStep ==
    /\ bll_history < MaxPersistFeedback
    /\ last_decision # NoDecision
    /\ \E success \in BOOLEAN : feedback(success, None, "ol_write_fail")

SaveStep == \E io \in {"ok", "mkdir_fail"} : save(io)

RestartStep ==
    /\ now < MaxPersistNow
    /\ restart(now + 1)

NextPersist == PersistDecideStep \/ PersistFeedbackStep \/ SaveStep \/ RestartStep

SpecPersist == InitLearn /\ [][NextPersist]_vars

\* Reinforcement: without a concept store every standard Decision carries the
\* concept FORWARD_UNCERTAIN, so one learned vector is reinforced by the
\* vectors of different readings
MaxEmaCycles == 2         \* decide() calls of SpecEma
MaxEmaFeedback == 4       \* feedback() calls of SpecEma

EmaReadings == { <<110, 250, 250>>, <<200, 150, 150>>, <<400, 400, 400>> }

EmaDecideStep ==
    /\ decision_count < MaxEmaCycles
    /\ \E r \in EmaReadings :
          decide(r[1], r[2], r[3], DefaultSpeed, DefaultSpeed, now)

EmaFeedbackStep ==
    /\ bll_history < MaxEmaFeedback
    /\ last_decision # NoDecision
    /\ \E success \in BOOLEAN : feedback(success, None, "ok")

NextEma == EmaDecideStep \/ EmaFeedbackStep

InitEma == Init /\ ~loaded /\ ~dir_exists

SpecEma == InitEma /\ [][NextEma]_vars

\* Every decision path in one run: triggers, maneuver steps, the hysteresis
\* suppression of a quick opposite trigger, standard matches, and feedback
MaxCounterCycles == 4     \* decide() calls of SpecCounter
MaxCounterFeedback == 1   \* feedback() calls of SpecCounter

CounterReadings == { <<40, 40, 40>>, <<150, 30, 200>>, <<150, 30, 230>>,
                     <<150, 200, 30>>, <<200, 150, 150>> }

CounterDecideStep ==
    /\ decision_count < MaxCounterCycles
    /\ \E r \in CounterReadings :
          decide(r[1], r[2], r[3], DefaultSpeed, DefaultSpeed, now)

CounterFeedbackStep ==
    /\ bll_history < MaxCounterFeedback
    /\ \E success \in BOOLEAN : feedback(success, "navigation", "ok")

NextCounter == CounterDecideStep \/ CounterFeedbackStep

SpecCounter == InitFresh /\ [][NextCounter]_vars

\* The triggers at their thresholds: readings on both sides of every
\* comparison of the two trigger checks, and a sensor fault reported as -1
MaxTriggerCycles == 1     \* decide() calls of SpecTrigger

TriggerFronts == {-1, 59, 60}
TriggerLefts == {-1, 29, 30, 59, 60, 199, 200}
TriggerRights == {29, 30, 59, 60, 179, 220, 221}

TriggerStep ==
    /\ decision_count < MaxTriggerCycles
    /\ \E df \in TriggerFronts, dl \in TriggerLefts, dr \in TriggerRights :
          decide(df, dl, dr, DefaultSpeed, DefaultSpeed, now)

NextTrigger == TriggerStep

SpecTrigger == InitFresh /\ [][NextTrigger]_vars

\* The rule ladder on readings around the thresholds of its front and
\* passage-width rungs
MaxRuleCycles == 2        \* decide() calls of SpecRule

RuleStep ==
    /\ decision_count < MaxRuleCycles
    /\ \E df \in {59, 60, 80, 99, 100, 200},
          dl \in {59, 60, 100, 140, 210, 300},
          dr \in {59, 60, 100, 140, 209, 300} :
          decide(df, dl, dr, DefaultSpeed, DefaultSpeed, now)

SpecRule == InitFresh /\ [][RuleStep]_vars

\* A blocked front with clear sides: one reading, chosen at the first call,
\* on every cycle
MaxStuckCycles == 46      \* decide() calls of SpecStuck

StuckStep ==
    /\ decision_count < MaxStuckCycles
    /\ \E r \in { <<40, 150, 150>>, <<59, 101, 400>>, <<0, 300, 120>> } :
          /\ call.op = "decide" => r = <<call.front, call.left, call.right>>
          /\ decide(r[1], r[2], r[3], DefaultSpeed, DefaultSpeed, now)

SpecStuck == InitFresh /\ [][StuckStep]_vars

\* Emergency escapes from trigger to exit: readings that start one with
\* either turn direction, and side readings at the align threshold
MaxAlignCycles == 24      \* decide() calls of SpecAlign

AlignReadings == { <<40, 30, 80>>, <<40, 80, 30>>,
                   <<150, 100, 101>>, <<150, 101, 101>> }

AlignStep ==
    /\ decision_count < MaxAlignCycles
    /\ \E r \in AlignReadings :
          decide(r[1], r[2], r[3], DefaultSpeed, DefaultSpeed, now)

NextAlign == AlignStep

SpecAlign == InitFresh /\ [][NextAlign]_vars

\* Avoidance turns from start to exit: side readings at the improvement and
\* the clear thresholds, both turn directions, and a clock that lets an
\* opposite trigger arrive at once or two seconds after a completed turn
MaxAvoidCycles == 4       \* decide() calls of SpecAvoid
MaxAvoidNow == 4          \* latest decide() time of SpecAvoid

AvoidReadings == { <<150, 30, 200>>, <<150, 30, 219>>, <<150, 30, 220>>,
                   <<150, 30, 290>>, <<150, 30, 300>>, <<150, 30, 301>>,
                   <<150, 200, 30>>, <<150, 220, 30>> }

AvoidStep ==
    /\ decision_count < MaxAvoidCycles
    /\ \E r \in AvoidReadings, t \in Times(MaxAvoidNow) :
          decide(r[1], r[2], r[3], DefaultSpeed, DefaultSpeed, t)

NextAvoid == AvoidStep

SpecAvoid == InitFresh /\ [][NextAvoid]_vars

\* Doubt: failures lower the weight of a matched category until a reading
\* the concept store matches well falls to the confidence threshold
MaxDoubtCycles == 2       \* decide() calls of SpecDoubt
MaxDoubtFeedback == 5     \* feedback() calls of SpecDoubt

DoubtReadings == { <<200, 320, 210>>, <<110, 250, 250>> }

DoubtDecideStep ==
    /\ decision_count < MaxDoubtCycles
    /\ \E r \in DoubtReadings :
          decide(r[1], r[2], r[3], DefaultSpeed, DefaultSpeed, now)

DoubtFeedbackStep ==
    /\ bll_history < MaxDoubtFeedback
    /\ last_decision # NoDecision
    /\ \E success \in BOOLEAN : feedback(success, None, "ok")

NextDoubt == DoubtDecideStep \/ DoubtFeedbackStep

SpecDoubt == InitFresh /\ [][NextDoubt]_vars

\* Chaos: a run in open space that takes the oscillator away from its
\* initial state, where its output is too small to move a speed, and then
\* standard decisions with the nearest obstacle beyond and within the safe
\* distance, Forward and turn concepts, and maneuver steps
ChaosWarmCycles == 50     \* open-space decide() calls that open SpecChaos
MaxChaosCycles == 4       \* decide() calls of SpecChaos that follow them

ChaosReadings == { <<110, 250, 250>>, <<200, 150, 150>>, <<200, 320, 210>>,
                   <<150, 30, 200>>, <<40, 40, 40>> }

ChaosStep ==
    /\ decision_count < ChaosWarmCycles + MaxChaosCycles
    /\ \E r \in IF decision_count < ChaosWarmCycles THEN { <<400, 400, 400>> }
                ELSE ChaosReadings :
          decide(r[1], r[2], r[3], DefaultSpeed, DefaultSpeed, now)

NextChaos == ChaosStep

SpecChaos == InitFresh /\ [][NextChaos]_vars

\* Decay: learned vectors under two concepts, then failure after failure
\* until the decayed vector is deleted
MaxDecayCycles == 2       \* decide() calls of SpecDecay
MaxDecaySuccess == 2      \* feedback() calls of SpecDecay that may succeed
MaxDecayFeedback == 50    \* feedback() calls of SpecDecay

DecayReadings == { <<200, 320, 210>>, <<110, 250, 250>> }

DecayDecideStep ==
    /\ decision_count < MaxDecayCycles
    /\ \E r \in DecayReadings :
          decide(r[1], r[2], r[3], DefaultSpeed, DefaultSpeed, now)

DecaySuccessStep ==
    /\ bll_history < MaxDecaySuccess
    /\ last_decision # NoDecision
    /\ feedback(TRUE, None, "ok")

DecayFailureStep ==
    /\ bll_history < MaxDecayFeedback
    /\ last_decision # NoDecision
    /\ feedback(FALSE, None, "ok")

NextDecay == DecayDecideStep \/ DecaySuccessStep \/ DecayFailureStep

SpecDecay == InitFresh /\ [][NextDecay]_vars

\* ------------------------------------------------------------------------
\* Properties
\* ------------------------------------------------------------------------
\* A step of the engine that is a decide() call
IsDecide == decision_count' # decision_count

\* A step of the engine that is a feedback() call
IsFeedback == decision_count' = decision_count /\ call'.op = "feedback"

\* C1: every Decision decide() returns, in any engine state, has speed_left
\* and speed_right both within [-150, 150].
C1_SpeedsInRange ==
    decision # NoDecision =>
        /\ -150 * FP <= decision.speed_left /\ decision.speed_left <= 150 * FP
        /\ -150 * FP <= decision.speed_right /\ decision.speed_right <= 150 * FP

\* A continuing turn inside a maneuver, after feedback changed a weight
C1_Witness ==
    /\ path = "maneuver"
    /\ decision.action = TURN_RIGHT
    /\ decision.speed_right = 120 * FP
    /\ bll_weights # LoadedFrom(NoFile)

\* The triggers as the maneuver state machine states them: front below 60 mm,
\* or both sides below 60 mm, or a side below 30 mm; a side below 200 mm with
\* the sides more than 20 mm apart
EmergencyTrigger(df, dl, dr) ==
    df < 60 \/ (dl < 60 /\ dr < 60) \/ dl < 30 \/ dr < 30

AvoidanceTrigger(df, dl, dr) ==
    (dl < 200 \/ dr < 200) /\ (dl - dr > 20 \/ dr - dl > 20)

\* C2: each decide() call runs exactly one of three paths and returns one
\* Decision: the maneuver continuation if and only if a maneuver is active
\* when the call starts; otherwise the trigger start if and only if the
\* emergency or the avoidance trigger holds for the readings; otherwise the
\* standard match.
C2_OnePath ==
    [][IsDecide =>
        /\ decision'.cycle = decision_count'
        /\ IF current_maneuver # NoManeuver
           THEN /\ path' = "maneuver"
                /\ decision'.source = "MANEUVER"
                /\ UNCHANGED <<last_decision, last_sensor_vec, lorenz_state,
                               direction_memory>>
           ELSE IF EmergencyTrigger(call'.front, call'.left, call'.right)
                   \/ AvoidanceTrigger(call'.front, call'.left, call'.right)
           THEN /\ path' \in {"emergency_start", "avoidance_start"}
                /\ decision'.source \in {"MANEUVER", "ANTI_OSCILLATION"}
                /\ UNCHANGED <<last_decision, last_sensor_vec, lorenz_state>>
           ELSE /\ path' = "standard"
                /\ decision'.source \in {"NPZ", "OL"}
                /\ last_decision' = decision'
                /\ current_maneuver' = NoManeuver
                /\ UNCHANGED direction_memory]_vars

\* A call on the continuation path whose readings satisfy the emergency
\* trigger
C2_Witness ==
    /\ path = "maneuver"
    /\ call.front < 60
    /\ decision.concept = "AVOIDING_OBSTACLE"

\* The turn direction a maneuver holds
TurnOf(m) == IF m.type = "EMERGENCY_ESCAPE" THEN m.turn_dir ELSE m.action

\* C3: while a maneuver is active every decide() call returns a Decision
\* with source Maneuver, whatever the readings; the maneuver's kind and turn
\* direction stay as they are until its own exit condition ends it.
C3_ManeuverPriority ==
    [][(IsDecide /\ current_maneuver # NoManeuver) =>
        /\ decision'.source = "MANEUVER"
        /\ IF current_maneuver' = NoManeuver
           THEN decision'.concept \in {"SAFE_REACHED", "PATH_IMPROVED"}
           ELSE /\ current_maneuver'.type = current_maneuver.type
                /\ TurnOf(current_maneuver') = TurnOf(current_maneuver)]_vars

\* An align turn that goes on under readings that satisfy the emergency
\* trigger
C3_Witness ==
    /\ path = "maneuver"
    /\ current_maneuver.type = "EMERGENCY_ESCAPE"
    /\ current_maneuver.phase = "ALIGN_TURN"
    /\ decision.concept = "ALIGNING_TO_SAFE"
    /\ call.front < 60

\* C4, as the code has it: a reading with front, left and right all below
\* 60 mm, met while no maneuver is active, is answered with action Reverse
\* and source Maneuver, and so is every call of the following 20 cycles,
\* whatever the later readings are.
C4_ReverseRun ==
    trapped_age \in 1 .. 21 =>
        decision.action = REVERSE /\ decision.source = "MANEUVER"

\* The twentieth cycle after the trigger, under a reading with room on
\* every side
C4_Witness ==
    /\ trapped_age = 21
    /\ decision.action = REVERSE
    /\ decision.concept = "REVERSING_20"
    /\ call.front > 100

\* C4: such a reading is answered with action Escape and source Maneuver,
\* and so is every call of the following 20 cycles.
C4_EscapeRun ==
    trapped_age \in 1 .. 21 =>
        decision.action = ESCAPE /\ decision.source = "MANEUVER"

\* C5: every Decision with action TurnLeft has speed_left < speed_right and
\* every Decision with action TurnRight has speed_left > speed_right.
C5_TurnConvention ==
    decision # NoDecision =>
        /\ decision.action = TURN_LEFT => decision.speed_left < decision.speed_right
        /\ decision.action = TURN_RIGHT => decision.speed_left > decision.speed_right

\* C6: from a fresh idle engine, the reading (front=150, left=30, right=200)
\* on every cycle yields action TurnRight on every cycle.
C6_LeftWallTurnsRight ==
    decision_count > 0 => decision.action = TURN_RIGHT

\* Thirty cycles into the run, still turning
C6_Witness ==
    /\ decision_count >= 30
    /\ decision.action = TURN_RIGHT
    /\ decision.concept = "AVOIDING_OBSTACLE"

\* C7, as the code has it: in a run of avoidance triggers whose turn
\* directions alternate, the seventh trigger at the latest is answered by a
\* Forward Decision with source AntiOscillation.
C7_SeventhTrigger ==
    trigger_run.n >= 7 => trigger_run.anti

\* The seventh trigger of a run, the first one that is not answered by a turn
C7_Witness ==
    /\ trigger_run.n = 7
    /\ path = "avoidance_start"
    /\ decision.action = FORWARD
    /\ decision.source = "ANTI_OSCILLATION"
    /\ decision.concept = "FORCE_FORWARD"

\* C7: once at least 6 avoidance triggers with alternating directions have
\* occurred, a Forward Decision with source AntiOscillation has been
\* returned in place of a turn.
C7_SixTriggers ==
    (trigger_run.n >= 6 /\ current_maneuver = NoManeuver) => trigger_run.anti

\* C8: with the concept store not loaded and no learned vector, a Decision of
\* the standard path has the action and the speeds the rule ladder gives for
\* the same readings.
C8_RuleFallback ==
    (call.op = "decide" /\ path = "standard" /\ ~loaded /\ ol_vectors = <<>>) =>
        LET rule == _rule_based_decision(call.front, call.left, call.right)
        IN  /\ decision.action = rule[1]
            /\ decision.speed_left = rule[2]
            /\ decision.speed_right = rule[3]

\* C9: every Decision decide() returns has confidence within [0, 1].
C9_ConfidenceInRange ==
    decision # NoDecision =>
        0 <= decision.confidence /\ decision.confidence <= FP

\* C10: in an engine started with no persisted weights every stored weight
\* lies in [0.5, 1.5]; a category with no stored weight counts as 1.0; a
\* feedback call for category c sets weight[c] to clamp(old + learning_rate)
\* on success, clamp(old - learning_rate) on failure, and leaves every other
\* weight as it is.
C10_WeightUpdate ==
    [][(IsFeedback /\ bll_fresh) =>
        LET c == IF call'.category = None /\ last_decision # NoDecision
                 THEN last_decision.category
                 ELSE call'.category
            old == IF c \in DOMAIN bll_weights THEN bll_weights[c] ELSE FP
            moved == IF call'.success THEN old + learning_rate ELSE old - learning_rate
            clamped == IF moved < 500 THEN 500 ELSE IF moved > 1500 THEN 1500 ELSE moved
        IN  /\ \A k \in DOMAIN bll_weights' :
                  500 <= bll_weights'[k] /\ bll_weights'[k] <= 1500
            /\ IF c = None
               THEN bll_weights' = bll_weights
               ELSE /\ DOMAIN bll_weights' = DOMAIN bll_weights \cup {c}
                    /\ bll_weights'[c] = clamped
                    /\ \A k \in DOMAIN bll_weights :
                          k # c => bll_weights'[k] = bll_weights[k]]_vars

\* A weight held at the upper limit by the sixth success in a row
C10_Witness ==
    /\ bll_fresh
    /\ call.op = "feedback"
    /\ bll_history = 6
    /\ "navigation" \in DOMAIN bll_weights
    /\ bll_weights["navigation"] = 1500

\* C11: feedback() learns from the Decision returned by the most recent
\* decide() call: with no category argument the weight it adjusts is that of
\* this Decision's category ('unknown' for a Decision that carries none), and
\* the learned-vector entry it inserts, averages or decays is keyed by this
\* Decision's concept label with the feature vector of that cycle's readings,
\* also when the Decision came from a maneuver step or an anti-oscillation
\* suppression. (ABSRBidecision.decide records last_decision and
\* last_sensor_vec on the standard path only, lines 692-695 and 749-761, so
\* this is violated.)
C11_LearnsFromLatest ==
    [][(IsFeedback /\ call.op = "decide" /\ call'.category = None) =>
        LET c == IF decision.category = NoCategory THEN "unknown"
                 ELSE decision.category
            vec == SensorVector(call.front, call.left, call.right,
                                DefaultSpeed, DefaultSpeed)
        IN  /\ bll_weights' = BllUpdate(bll_weights, c, call'.success)
            /\ ol_vectors' = OlUpdate(ol_vectors, decision.concept, vec,
                                      call'.success)]_vars

\* C12: a failure while persisting learning data (the learning directory
\* cannot be created, or a file cannot be written) never propagates out of
\* feedback() or save(). (os.makedirs is called before the try block of
\* save_learning_data, lines 546-547, so its failure does propagate.)
C12_SaveFailureContained ==
    call.op \in {"feedback", "save"} => ~raised

IsRestart == call'.op = "restart"

C14_EmaContraction ==
    [][/\ (/\ IsFeedback /\ call'.success
            /\ last_decision # NoDecision /\ last_sensor_vec # NoVec
            /\ last_decision.concept \in OlKeys(ol_vectors)) =>
           LET v == last_sensor_vec
               old == OlGet(ol_vectors, last_decision.concept)
               new == OlGet(ol_vectors', last_decision.concept)
           IN  /\ last_decision.concept \in OlKeys(ol_vectors')
               /\ \A i \in Slots :
                     /\ new[i] = Quot(150 * v[i] + 850 * old[i], FP)
                     /\ Abs(new[i] - v[i]) <= Abs(old[i] - v[i])
               /\ (old = v => new = v)
       /\ \A i \in DOMAIN ol_vectors' : Norm(ol_vectors'[i].v) <= FP]_vars

\* A stored vector that two successes in a row pulled towards the vector of
\* a second reading without reaching it
C14_Witness ==
    /\ call.op = "feedback" /\ call.success
    /\ bll_history >= 3
    /\ last_decision # NoDecision
    /\ last_decision.concept \in OlKeys(ol_vectors)
    /\ OlGet(ol_vectors, last_decision.concept) # last_sensor_vec
    /\ Norm(OlGet(ol_vectors, last_decision.concept)) > 900

\* C15: the cycle value of the Decisions returned by successive decide()
\* calls increases by exactly 1 at each call, from 1 at the first, on every
\* path (maneuver continuation, trigger start, anti-oscillation suppression,
\* standard match), and feedback() changes neither the counter nor the
\* Decision.
C15_CycleCounter ==
    [][/\ call'.op = "decide" =>
           /\ decision_count' = decision_count + 1
           /\ decision'.cycle = decision_count'
           /\ decision'.cycle =
                  (IF decision = NoDecision THEN 0 ELSE decision.cycle) + 1
       /\ call'.op = "feedback" =>
           /\ decision_count' = decision_count
           /\ decision' = decision]_vars

\* The third Decision of a run with a feedback call in it, an
\* anti-oscillation suppression numbered 3
C15_Witness ==
    /\ call.op = "decide"
    /\ decision.source = "ANTI_OSCILLATION"
    /\ decision.cycle = 3
    /\ decision_count = 3
    /\ bll_history = 1

\* A reading as the defensive handling of a sensor fault would see it:
\* a negative distance replaced by the maximum range
AtMaxRange(d) == IF d < 0 THEN max_sensor_range ELSE d

\* C16: a negative distance reading is handled as an unknown reading at
\* maximum range: it satisfies neither the emergency trigger nor the
\* avoidance trigger and enters the feature vector as the max-range value.
\* (The checks compare the raw reading, lines 770-772 and 794-798, and
\* create_sensor_vector bounds it from above only, lines 201-203, so this is
\* violated.)
C16_NegativeAsMaxRange ==
    [][(/\ call'.op = "decide" /\ decision_count' = decision_count + 1
        /\ current_maneuver = NoManeuver
        /\ (call'.front < 0 \/ call'.left < 0 \/ call'.right < 0)) =>
        LET df == AtMaxRange(call'.front)
            dl == AtMaxRange(call'.left)
            dr == AtMaxRange(call'.right)
        IN  /\ path' = IF EmergencyTrigger(df, dl, dr) THEN "emergency_start"
                       ELSE IF AvoidanceTrigger(df, dl, dr) THEN "avoidance_start"
                       ELSE "standard"
            /\ path' = "standard" =>
                   last_sensor_vec' = SensorVector(df, dl, dr,
                                                   DefaultSpeed, DefaultSpeed)]_vars

\* C17: when no maneuver is active, decide() starts an EmergencyEscape if and
\* only if front < 60, or left < 60 and right < 60, or left < 30, or
\* right < 30 (strict comparisons); the emergency trigger is evaluated before
\* the avoidance trigger, so a reading satisfying both starts an
\* EmergencyEscape and never an AvoidanceTurn.
C17_EmergencyTrigger ==
    [][(/\ call'.op = "decide" /\ decision_count' = decision_count + 1
        /\ current_maneuver = NoManeuver) =>
        IF EmergencyTrigger(call'.front, call'.left, call'.right)
        THEN /\ path' = "emergency_start"
             /\ current_maneuver'.type = "EMERGENCY_ESCAPE"
             /\ decision'.concept = "EMERGENCY_START"
        ELSE /\ path' # "emergency_start"
             /\ current_maneuver' = NoManeuver
                   \/ current_maneuver'.type # "EMERGENCY_ESCAPE"]_vars

\* An EmergencyEscape started by a reading that satisfies the avoidance
\* trigger as well: right side at 29 mm, left side at 199 mm, front clear
C17_Witness ==
    /\ call = [op |-> "decide", front |-> 60, left |-> 199, right |-> 29]
    /\ path = "emergency_start"
    /\ current_maneuver.type = "EMERGENCY_ESCAPE"

\* C20: when no maneuver is active and the emergency trigger does not hold,
\* the avoidance branch is taken if and only if (left < 200 or right < 200)
\* and |left - right| > 20; readings with both sides at or above 200, or with
\* sides within 20 mm of each other, never start an AvoidanceTurn and go to
\* the standard-match path.
C20_AvoidanceTrigger ==
    [][(/\ call'.op = "decide" /\ decision_count' = decision_count + 1
        /\ current_maneuver = NoManeuver
        /\ ~EmergencyTrigger(call'.front, call'.left, call'.right)) =>
        IF AvoidanceTrigger(call'.front, call'.left, call'.right)
        THEN path' = "avoidance_start"
        ELSE /\ path' = "standard"
             /\ current_maneuver' = NoManeuver
             /\ decision'.source \in {"NPZ", "OL"}]_vars

\* A standard match for sides exactly 20 mm apart, the left one below 200
C20_Witness ==
    /\ call = [op |-> "decide", front |-> 60, left |-> 199, right |-> 179]
    /\ path = "standard"
    /\ current_maneuver = NoManeuver

PureReverse(d) == d.speed_left < 0 /\ d.speed_right < 0

AlignPhaseDecision(d) == d.concept \in {"ALIGNING_TO_SAFE", "SAFE_REACHED"}

\* C18, as the code has it: one EmergencyEscape emits 21 consecutive
\* pure-reverse Decisions (both wheel speeds negative), the Decision of the
\* trigger cycle and one for each of the target_steps = 20 steps of the
\* budget, irrespective of the readings; the Decision of the next cycle, the
\* 22nd, is the first AlignTurn-phase Decision.
C18_ReverseCount ==
    /\ escape_age \in 1 .. 21 =>
           PureReverse(decision) /\ ~AlignPhaseDecision(decision)
    /\ escape_age = 22 =>
           ~PureReverse(decision) /\ AlignPhaseDecision(decision)

\* The 22nd Decision of an escape, a turn of the AlignTurn phase
C18_Witness ==
    /\ escape_age = 22
    /\ decision.concept = "ALIGNING_TO_SAFE"
    /\ decision.action = TURN_LEFT
    /\ decision.cycle = 22

\* C18: the number of consecutive pure-reverse Decisions emitted by one
\* EmergencyEscape, counted from and including the Decision of the trigger
\* cycle, equals the step budget target_steps = 20, irrespective of the
\* readings; the Decision of the next cycle is the first AlignTurn-phase
\* Decision.
C18_TwentyReverse ==
    /\ escape_age \in 1 .. 20 =>
           PureReverse(decision) /\ ~AlignPhaseDecision(decision)
    /\ escape_age = 21 =>
           ~PureReverse(decision) /\ AlignPhaseDecision(decision)

\* C19: in the AlignTurn phase the engine returns, on every cycle where
\* left <= 100 or right <= 100, a turn in the direction fixed at trigger time
\* (TurnRight if left < right at the trigger, TurnLeft otherwise); on the
\* first cycle where left > 100 and right > 100 it returns exactly one Stop
\* Decision labelled SAFE_REACHED with zero speeds, and the engine is Idle
\* afterwards.
C19_AlignTurn ==
    [][/\ (call'.op = "decide" /\ path' = "emergency_start") =>
           current_maneuver'.turn_dir =
               IF call'.left < call'.right THEN TURN_RIGHT ELSE TURN_LEFT
       /\ (/\ call'.op = "decide" /\ path' = "maneuver"
           /\ current_maneuver.type = "EMERGENCY_ESCAPE"
           /\ current_maneuver.phase = "REVERSE") =>
           current_maneuver'.turn_dir = current_maneuver.turn_dir
       /\ (/\ call'.op = "decide" /\ path' = "maneuver"
           /\ current_maneuver.type = "EMERGENCY_ESCAPE"
           /\ current_maneuver.phase = "ALIGN_TURN") =>
           IF call'.left > 100 /\ call'.right > 100
           THEN /\ decision'.action = STOP
                /\ decision'.concept = "SAFE_REACHED"
                /\ decision'.speed_left = 0 /\ decision'.speed_right = 0
                /\ current_maneuver' = NoManeuver
           ELSE /\ decision'.action = current_maneuver.turn_dir
                /\ decision'.concept = "ALIGNING_TO_SAFE"
                /\ current_maneuver' = current_maneuver
       /\ (/\ call'.op = "decide" /\ decision # NoDecision
           /\ decision.concept = "SAFE_REACHED") =>
           path' # "maneuver"]_vars

\* The Stop that ends an escape whose AlignTurn phase turned for at least
\* one cycle before both sides read 101 mm
C19_Witness ==
    /\ decision # NoDecision
    /\ decision.concept = "SAFE_REACHED"
    /\ call = [op |-> "decide", front |-> 150, left |-> 101, right |-> 101]
    /\ current_maneuver = NoManeuver
    /\ escape_age = 23
    /\ decision.cycle >= 23

\* C21: an AvoidanceTurn turns away from the lower side (TurnRight if
\* left < right at start, TurnLeft otherwise), records at start the clearance
\* of the side it turns towards, and stays active on every cycle where that
\* side's current clearance is below start + 20 and at most 300; on the first
\* cycle where it has improved by at least 20 mm or exceeds 300 mm the engine
\* returns Forward labelled PATH_IMPROVED, becomes Idle, and stores that turn
\* direction and the current time as the last completed avoidance.
C21_AvoidanceTurn ==
    [][/\ (/\ call'.op = "decide" /\ path' = "avoidance_start"
           /\ decision'.source = "MANEUVER") =>
           LET turn == IF call'.left < call'.right THEN TURN_RIGHT ELSE TURN_LEFT
               towards == IF call'.left < call'.right THEN call'.right
                          ELSE call'.left
           IN  /\ decision'.action = turn
               /\ current_maneuver'.type = "AVOIDANCE_TURN"
               /\ current_maneuver'.action = turn
               /\ current_maneuver'.start_target_val = towards
       /\ (/\ call'.op = "decide" /\ path' = "maneuver"
           /\ current_maneuver.type = "AVOIDANCE_TURN") =>
           LET turn == current_maneuver.action
               clearance == IF turn = TURN_RIGHT THEN call'.right ELSE call'.left
               start == current_maneuver.start_target_val
           IN  IF clearance < start + 20 /\ clearance <= 300
               THEN /\ decision'.action = turn
                    /\ decision'.concept = "AVOIDING_OBSTACLE"
                    /\ current_maneuver' = current_maneuver
                    /\ last_maneuver_turn' = last_maneuver_turn
                    /\ last_maneuver_time' = last_maneuver_time
               ELSE /\ decision'.action = FORWARD
                    /\ decision'.concept = "PATH_IMPROVED"
                    /\ current_maneuver' = NoManeuver
                    /\ last_maneuver_turn' = turn
                    /\ last_maneuver_time' = now']_vars

\* A right turn started at 290 mm that went on at 300 mm and ended at
\* 301 mm, an improvement of 11 mm
C21_Witness ==
    /\ call = [op |-> "decide", front |-> 150, left |-> 30, right |-> 301]
    /\ decision.concept = "PATH_IMPROVED"
    /\ decision.cycle = 3
    /\ current_maneuver = NoManeuver
    /\ last_maneuver_turn = TURN_RIGHT
    /\ last_maneuver_time = now
    /\ direction_memory = <<"RIGHT">>

\* C22: when the avoidance trigger fires and the oscillation detector is
\* silent, the turn is suppressed if and only if the direction it would take
\* differs from the direction of the last completed AvoidanceTurn and fewer
\* than 2 seconds have passed since that completion (never before any
\* AvoidanceTurn has completed); a suppressed trigger returns a Forward
\* Decision with source AntiOscillation, starts no maneuver and appends
\* nothing to the direction memory.
C22_HysteresisSuppression ==
    [][(/\ call'.op = "decide" /\ path' = "avoidance_start"
        /\ ~_detect_oscillation(direction_memory)) =>
        LET turn == IF call'.left < call'.right THEN TURN_RIGHT ELSE TURN_LEFT
            suppressed == /\ last_maneuver_turn # None
                          /\ last_maneuver_turn # turn
                          /\ now' - last_maneuver_time < 2
        IN  IF suppressed
            THEN /\ decision'.action = FORWARD
                 /\ decision'.source = "ANTI_OSCILLATION"
                 /\ current_maneuver' = NoManeuver
                 /\ direction_memory' = direction_memory
            ELSE /\ decision'.source = "MANEUVER"
                 /\ decision'.action = turn
                 /\ current_maneuver'.type = "AVOIDANCE_TURN"
                 /\ Len(direction_memory') = Len(direction_memory) + 1]_vars

\* A left-turn trigger suppressed in the second in which a right turn was
\* completed
C22_Witness ==
    /\ call.op = "decide" /\ call.left > call.right
    /\ path = "avoidance_start"
    /\ decision.source = "ANTI_OSCILLATION"
    /\ decision.concept = "HYSTERESIS_FORWARD"
    /\ last_maneuver_turn = TURN_RIGHT
    /\ last_maneuver_time = now
    /\ current_maneuver = NoManeuver

\* The number of places where two neighbouring entries of a sequence differ
Changes(q) == Cardinality({i \in 1 .. Len(q) - 1 : q[i] # q[i + 1]})

\* The last 6 entries of the direction memory, when it holds at least 6
Last6(q) == [i \in 1 .. 6 |-> q[Len(q) - 6 + i]]

\* C23: the oscillation detector reports oscillation exactly when the
\* direction memory holds at least 6 entries and its last 6 entries are
\* strictly alternating or contain at least 4 changes between neighbouring
\* entries; when it reports oscillation at an avoidance trigger, no
\* AvoidanceTurn starts and a Forward Decision with source AntiOscillation is
\* returned.
C23_OscillationDetector ==
    [][(call'.op = "decide" /\ path' = "avoidance_start") =>
        LET oscillating ==
                /\ Len(direction_memory) >= 6
                /\ \/ Changes(Last6(direction_memory)) = 5
                   \/ Changes(Last6(direction_memory)) >= 4
        IN  /\ oscillating <=> decision'.concept = "FORCE_FORWARD"
            /\ oscillating =>
                   /\ decision'.action = FORWARD
                   /\ decision'.source = "ANTI_OSCILLATION"
                   /\ oscillation_detected'
                   /\ current_maneuver' = NoManeuver
                   /\ direction_memory' = direction_memory]_vars

\* A trigger answered by the detector on a memory whose last six turns
\* change direction four times without alternating throughout
C23_Witness ==
    /\ call.op = "decide"
    /\ path = "avoidance_start"
    /\ decision.concept = "FORCE_FORWARD"
    /\ Len(direction_memory) = 6
    /\ Changes(direction_memory) = 4
    /\ current_maneuver = NoManeuver

\* C24: on the standard-match path, whenever the RuleFallback result for the
\* readings has a label other than the generic default and the adjusted
\* confidence (similarity x category weight) is below 0.7, the returned
\* Decision has the rule's action, speeds and label and source RuleFuse; in
\* every other case the rule result is not used. (decide() of
\* swarm_core_FIXED.py never calls _rule_based_decision, lines 689-761, so
\* this is violated.)
C24_RuleFuse ==
    (call.op = "decide" /\ path = "standard") =>
        LET rule == _rule_based_decision(call.front, call.left, call.right)
        IN  IF rule[4] # "DEFAULT_CAUTIOUS" /\ decision.confidence < 700
            THEN /\ decision.source = "RULE_FUSE"
                 /\ decision.action = rule[1]
                 /\ decision.speed_left = rule[2]
                 /\ decision.speed_right = rule[3]
                 /\ decision.concept = rule[4]
            ELSE decision.source # "RULE_FUSE"

\* C25: on the standard-match path the learned-store match is chosen over
\* the concept-store match if and only if online learning is enabled and its
\* similarity is strictly greater than both the concept-store similarity and
\* the usability threshold 0.6; in every other case, ties included, the
\* concept-store match is chosen.
C25_LearnedMatchChoice ==
    [][(call'.op = "decide" /\ path' = "standard") =>
        \E npz \in {NpzMatch(loaded, call'.front, call'.left, call'.right,
                              last_sensor_vec')},
           ol \in {_match_ol_vectors(ol_vectors, last_sensor_vec')} :
           LET learned == ol_enabled /\ ol[2] > npz[2] /\ ol[2] > 600
               chosen == IF learned THEN ol ELSE npz
           IN  /\ decision'.source = IF learned THEN "OL" ELSE "NPZ"
               /\ decision'.confidence =
                      Mul(chosen[2], WeightOf(bll_weights, npz[3]))
               /\ decision'.concept \in {chosen[1], "FORWARD_UNCERTAIN"}]_vars

\* A concept-store match kept although the learned store holds a vector
\* whose similarity to the reading exceeds the usability threshold
C25_Witness ==
    /\ call.op = "decide" /\ path = "standard"
    /\ decision.source = "NPZ"
    /\ ol_vectors # <<>>
    /\ _match_ol_vectors(ol_vectors, last_sensor_vec)[2] > 600

\* The speeds decide() returns for base speeds: blended with the chaos output
\* of the new oscillator state when the action is Forward and every reading
\* exceeds 120 mm, the base speeds themselves otherwise
ReturnedSpeeds(action, sl, sr, min_dist, state) ==
    IF action = FORWARD /\ min_dist > 120 /\ LorenzOut(state) # <<0, 0, 0>>
    THEN LET blended == _chaos_blend_action(action, sl, sr, LorenzOut(state))
         IN  <<blended[2], blended[3]>>
    ELSE <<sl, sr>>

\* C26: on the standard-match path with the match result in use, the action
\* and base speeds are those of action_for_concept(chosen concept) when the
\* adjusted confidence is > 0.5; when it is <= 0.5 the Decision is Forward
\* with base speeds 80/80 and label FORWARD_UNCERTAIN, whatever concept was
\* matched.
C26_ConfidenceThreshold ==
    [][(call'.op = "decide" /\ path' = "standard") =>
        LET min_dist == Min2(call'.front, Min2(call'.left, call'.right))
            base == IF decision'.confidence > 500
                    THEN concept_to_action(decision'.concept)
                    ELSE <<FORWARD, 80 * FP, 80 * FP>>
        IN  /\ decision'.confidence <= 500 =>
                   decision'.concept = "FORWARD_UNCERTAIN"
            /\ decision'.action = base[1]
            /\ <<decision'.speed_left, decision'.speed_right>> =
                   ReturnedSpeeds(base[1], base[2], base[3], min_dist,
                                  lorenz_state')]_vars

\* A reading the concept store matches well, answered FORWARD_UNCERTAIN
\* because the weight of the matched category has been lowered to 0.5
C26_Witness ==
    /\ call.op = "decide" /\ path = "standard"
    /\ loaded
    /\ decision.concept = "FORWARD_UNCERTAIN"
    /\ decision.confidence > 400
    /\ decision.confidence <= 500

\* The wheel speeds of the maneuver steps and of the suppressed triggers
StepSpeeds ==
    { <<-100 * FP, -100 * FP>>, <<0, 0>>, <<40 * FP, 120 * FP>>,
      <<120 * FP, 40 * FP>>, <<100 * FP, 100 * FP>>, <<120 * FP, 120 * FP>>,
      <<70 * FP, 70 * FP>>, <<60 * FP, 60 * FP>> }

\* C27: chaos modulation changes speeds only on standard-match Decisions
\* whose action is Forward, whose source is not RuleFuse and whose minimum
\* reading exceeds chaos_min_safe_distance (120 mm); in every other case
\* (turn, stop, escape, reverse, maneuver steps, minimum reading <= 120) the
\* returned speeds are exactly the base speeds of the chosen concept, rule or
\* maneuver step.
C27_ChaosFrame ==
    [][call'.op = "decide" =>
        LET min_dist == Min2(call'.front, Min2(call'.left, call'.right))
            base == IF decision'.confidence > 500
                    THEN concept_to_action(decision'.concept)
                    ELSE <<FORWARD, 80 * FP, 80 * FP>>
            speeds == <<decision'.speed_left, decision'.speed_right>>
        IN  IF path' = "standard"
            THEN /\ decision'.source # "RULE_FUSE"
                 /\ (decision'.action # FORWARD \/ min_dist <= 120) =>
                        speeds = <<base[2], base[3]>>
            ELSE /\ speeds \in StepSpeeds
                 /\ lorenz_state' = lorenz_state]_vars

\* A Forward Decision of the standard path, nearest obstacle at 110 mm,
\* returned with the base speeds of its concept while the oscillator is in a
\* state whose output would have changed them
C27_Witness ==
    /\ call = [op |-> "decide", front |-> 110, left |-> 250, right |-> 250]
    /\ path = "standard"
    /\ decision.action = FORWARD
    /\ <<decision.action, decision.speed_left, decision.speed_right>> =
           concept_to_action(decision.concept)
    /\ _chaos_blend_action(decision.action, decision.speed_left,
                           decision.speed_right, LorenzOut(lorenz_state))
           # <<decision.action, decision.speed_left, decision.speed_right>>

\* C28: the chaos oscillator state advances by exactly one integration step
\* on every decide() call that reaches the standard-match path, including
\* the cycles whose minimum reading is at or below the safe distance and
\* whose chaos output is therefore zeroed. (decide() calls _lorenz_step only
\* when the minimum reading exceeds the safe distance, lines 698-703, so this
\* is violated.)
C28_OscillatorAlwaysAdvances ==
    [][(call'.op = "decide" /\ path' = "standard") =>
        lorenz_state' = LorenzNext(lorenz_state)]_vars

\* C29: with online learning enabled and a recorded last decision and
\* vector: feedback(success=True) inserts the last vector under the last
\* decision's concept name if that name is absent and otherwise replaces the
\* entry by 0.15 * vector + 0.85 * entry; feedback(success=False) never
\* creates an entry, multiplies an existing entry by 0.95 and deletes it in
\* the same call once its norm is below 0.1; entries under all other concept
\* names are unchanged.
C29_LearnedVectorUpdate ==
    [][(/\ IsFeedback /\ ol_enabled
        /\ last_decision # NoDecision /\ last_sensor_vec # NoVec) =>
        LET name == last_decision.concept
            had == name \in OlKeys(ol_vectors)
            has == name \in OlKeys(ol_vectors')
            entry == OlGet(ol_vectors, name)
            new == OlGet(ol_vectors', name)
            decayed == [i \in Slots |-> Quot(entry[i] * 95, 100)]
        IN  /\ \A other \in OlKeys(ol_vectors) \ {name} :
                  /\ other \in OlKeys(ol_vectors')
                  /\ OlGet(ol_vectors', other) = OlGet(ol_vectors, other)
            /\ OlKeys(ol_vectors') \subseteq OlKeys(ol_vectors) \cup {name}
            /\ IF call'.success
               THEN /\ has
                    /\ ~had => new = last_sensor_vec
                    /\ had => \A i \in Slots :
                                 new[i] = Quot(150 * last_sensor_vec[i]
                                               + 850 * entry[i], FP)
               ELSE /\ ~had => ~has
                    /\ had => IF Norm(decayed) < 100
                              THEN ~has
                              ELSE has /\ \A i \in Slots : new[i] = decayed[i]]_vars

\* The failure that deletes the decayed vector of one concept and leaves the
\* vector learned under the other concept in the store
C29_Witness ==
    /\ call.op = "feedback" /\ ~call.success
    /\ last_decision # NoDecision
    /\ last_decision.concept \notin OlKeys(ol_vectors)
    /\ Len(ol_vectors) = 1
    /\ bll_history > 40

\* C30: a feedback() call saves the learning store exactly when it is a
\* failure feedback or the number of feedback calls made so far is a multiple
\* of 20; a success feedback at any other count writes nothing to disk, also
\* when it is given before any decision was recorded.  Stated for the first
\* call made on the engine (count 1): a success feedback leaves the disk as
\* it was.
C30_SaveEveryTwentieth ==
    [][(call.op = None /\ IsFeedback /\ call'.success) =>
        UNCHANGED <<dir_exists, disk_bll, disk_ol>>]_vars

\* C31: a save is atomic over the two maps: after a save that fails part-way
\* the persisted weights and the persisted vectors are either both what they
\* were before the save or both the in-memory maps, never a mix of the two
\* and never a partially written file.
C31_AtomicSave ==
    [][\/ disk_bll' = disk_bll /\ disk_ol' = disk_ol
       \/ disk_bll' = FileOf(bll_weights') /\ disk_ol' = OlFileOf(ol_vectors')]_vars

\* The result of the rule ladder for the readings of the last decide() call
RuleOfCall == _rule_based_decision(call.front, call.left, call.right)

\* Readings that match neither rung 1 nor rung 2 of the rule ladder and
\* have front below the warning threshold but not below the danger threshold
WarningZoneCall ==
    /\ call.op = "decide"
    /\ call.left >= 60 /\ call.right >= 60
    /\ call.front >= 60 /\ call.front < 100

C33_TightPassage ==
    (/\ call.op = "decide"
     /\ call.left >= 60 /\ call.right >= 60 /\ call.front >= 100
     /\ call.left + call.right >= get_min_passage_width
     /\ 2 * (call.left + call.right) < 3 * get_min_passage_width) =>
        RuleOfCall = <<FORWARD,
                       40 * FP - Quot((call.left - call.right) * 3 * FP, 20),
                       40 * FP + Quot((call.left - call.right) * 3 * FP, 20),
                       "TIGHT_PASSAGE">>

\* C34: once the oscillation detector has reported oscillation at an
\* avoidance trigger, no later decide() or feedback() call modifies the
\* direction memory, every later avoidance trigger returns the
\* anti-oscillation Forward Decision, and no AvoidanceTurn starts again.
C34_OscillationLatch ==
    [][oscillation_detected =>
        /\ oscillation_detected'
        /\ direction_memory' = direction_memory
        /\ _detect_oscillation(direction_memory')
        /\ (call'.op = "decide" /\ path' = "avoidance_start") =>
               /\ decision'.action = FORWARD
               /\ decision'.source = "ANTI_OSCILLATION"
               /\ decision'.concept = "FORCE_FORWARD"
        /\ \/ current_maneuver' = NoManeuver
           \/ current_maneuver'.type # "AVOIDANCE_TURN"]_vars

\* An avoidance trigger after the report and a feedback() call that followed
\* it, answered by the anti-oscillation Forward Decision
C34_Witness ==
    /\ oscillation_detected
    /\ bll_history = 1
    /\ call.op = "decide"
    /\ path = "avoidance_start"
    /\ decision.concept = "FORCE_FORWARD"
    /\ current_maneuver = NoManeuver

\* C35: no Decision with action Forward is returned on a cycle whose front
\* reading is below the hard-critical distance (60 mm), in any engine state
\* (idle, finishing an AvoidanceTurn with PATH_IMPROVED, or suppressing a
\* turn).
C35_NoForwardWhenBlocked ==
    (call.op = "decide" /\ call.front < 60) => decision.action # FORWARD

\* C36: every started maneuver returns to Idle within a bounded number of
\* decide() calls for every sequence of readings.  A decide() call that
\* leaves an active maneuver exactly as it found it can be repeated with the
\* same readings for ever, so boundedness requires that no decide() call does.
C36_ManeuverAdvances ==
    [][(IsDecide /\ current_maneuver # NoManeuver) =>
        current_maneuver' # current_maneuver]_vars

\* C37: under constant readings with front < 60, left > 100 and right > 100
\* the engine repeats an EmergencyEscape for ever: a run of Reverse Decisions
\* (the trigger's and the 20 of the step budget), then a single SAFE_REACHED
\* Stop, then a re-trigger on the very next cycle; it never returns a
\* TurnLeft, TurnRight or Forward Decision.
C37_EscapeLoop ==
    (call.op = "decide" /\ call.front < 60 /\ call.left > 100 /\ call.right > 100) =>
        /\ decision.action \notin {TURN_LEFT, TURN_RIGHT, FORWARD}
        /\ decision.source = "MANEUVER"
        /\ IF decision_count % 22 = 0
           THEN /\ decision.action = STOP
                /\ decision.concept = "SAFE_REACHED"
                /\ current_maneuver = NoManeuver
           ELSE /\ decision.action = REVERSE
                /\ current_maneuver # NoManeuver
                /\ current_maneuver.type = "EMERGENCY_ESCAPE"
        /\ decision_count % 22 = 1 <=> path = "emergency_start"
        /\ path = "emergency_start" <=> decision.concept = "EMERGENCY_START"

\* The second re-trigger, right after the second SAFE_REACHED Stop
C37_Witness ==
    /\ call.op = "decide" /\ call.front < 60 /\ call.left > 100 /\ call.right > 100
    /\ decision_count = 45
    /\ path = "emergency_start"
    /\ decision.action = REVERSE

C39_Frames ==
    [][/\ call'.op = "decide" =>
            /\ bll_weights' = bll_weights
            /\ ol_vectors' = ol_vectors
            /\ UNCHANGED <<dir_exists, disk_bll, disk_ol>>
       /\ call'.op = "feedback" =>
            /\ current_maneuver' = current_maneuver
            /\ direction_memory' = direction_memory
            /\ last_maneuver_turn' = last_maneuver_turn
            /\ last_maneuver_time' = last_maneuver_time
            /\ lorenz_state' = lorenz_state
            /\ decision_count' = decision_count]_vars

\* A failure feedback given in the middle of an AvoidanceTurn: the weights
\* have changed and were saved, the maneuver and the direction memory stand
C39_Witness ==
    /\ call.op = "feedback" /\ ~call.success
    /\ bll_history = 1
    /\ disk_bll = FileOf(bll_weights)
    /\ current_maneuver # NoManeuver
    /\ current_maneuver.type = "AVOIDANCE_TURN"
    /\ direction_memory # <<>>
    /\ decision_count > 0

====
